---------------------------- MODULE Spec2Model ----------------------------
(***************************************************************************)
(* A model of the USB Type-C power delivery sink stack of go-typec:        *)
(* the pdmsg codec, the typec event set, the CV device policy manager of   *)
(* tcdpm and the policy engine of tcpe (src/tcpe/tcpe.go).                 *)
(*                                                                         *)
(* Machine words (uint16 headers, uint32 data objects, the uint16 event    *)
(* set) are modelled as the set of their 1-bit positions: bit i of the     *)
(* word is set iff i is in the set.  This keeps every word bit-exact while *)
(* staying inside TLC's integers (a uint32 does not fit in them).          *)
(***************************************************************************)
EXTENDS Integers, Sequences, FiniteSets, TLC

(***************************************************************************)
(* Bounds of the model (not program constants).                            *)
(***************************************************************************)
\* Message IDs the source stamps on its messages are drawn from 0..MaxMsgID.
MaxMsgID == 1
\* Capacity of the port controller's queue of received messages.
MaxQueue == 1
\* Largest number of Tx calls followed within one session (since SinkStartup).
MaxTx == 3
\* The same, in the specification that follows a session past the wrap of the IDs.
MaxTxLong == 9
\* Largest number of events one Alert call reports.
MaxAlertEvents == 1
\* Alert reports events only while fewer than MaxPending events are pending.
MaxPending == 2
\* The messages one Alert call may queue in a burst, which is also the capacity
\* of the queue that takes the burst
MaxBurst == 2
\* Largest number of events in one argument of Event.Add and Event.Has.
MaxEventArg == 2
\* Largest number of setter calls followed on one codec word.
MaxCalls == 3
\* The longest byte slice handed to ToBytes.
MaxBuf == 32
\* The longest list of PDOs drawn freely from the pool.
MaxPDOs == 3

(***************************************************************************)
(* Words as bit sets.                                                      *)
(***************************************************************************)
U8  == 0..7
U16 == 0..15
U32 == 0..31

\* The bits of the natural number n (n < 2^16: a uint8 or uint16 argument).
BitsOf(n) == {i \in 0..15 : (n \div (2^i)) % 2 = 1}

\* The bits of a natural number below 2^31 (a uint32 literal).
WordOf(n) == {i \in 0..30 : (n \div (2^i)) % 2 = 1}

\* The natural number that the n bits of w from bit lo upwards stand for.
RECURSIVE FieldVal(_, _, _)
FieldVal(w, lo, n) ==
    IF n = 0 THEN 0
    ELSE (IF lo + n - 1 \in w THEN 2^(n - 1) ELSE 0) + FieldVal(w, lo, n - 1)
\* The natural number a word w within bits 0..15 stands for.
Val(w) == FieldVal(w, 0, 16)

Shl(w, k, width) == {i + k : i \in w} \cap width      \* (w << k) in a word of that width
Shr(w, k) == {i - k : i \in {j \in w : j >= k}}       \* w >> k
Mask(lo, n) == lo..(lo + n - 1)                       \* ((1<<n) - 1) << lo
Field(w, lo, n) == FieldVal(w, lo, n)                 \* (w >> lo) & (1<<n - 1)


(***************************************************************************)
(* pdmsg: message header (uint16).                                         *)
(***************************************************************************)
MaxDataObjects == 7

IsExtended(h) == 15 \in h
SetExtended(h, e) == (h \ {15}) \cup (IF e THEN {15} ELSE {})

ID(h) == Field(h, 9, 3)
SetID(h, id) == (h \ Mask(9, 3)) \cup Shl(BitsOf(id), 9, U16)

\* DataObjectCount reading two bits of the count
DataObjectCount_TwoBits(h) == Field(h, 12, 2)
DataObjectCount(h) == Field(h, 12, 3)
SetDataObjectCount(h, n) == (h \ Mask(12, 3)) \cup Shl(BitsOf(n), 12, U16)

IsData(h) == DataObjectCount(h) > 0

Type(h) == Field(h, 0, 5)
SetType(h, t) == (h \ Mask(0, 5)) \cup (BitsOf(t) \cap U16)

\* Control message types
TypeGoodCRC == 1
TypeAccept == 3
TypeReject == 4
TypePing == 5
TypePSReady == 6
TypeGetSourceCap == 7
TypeGetSinkCap == 8
TypeWait == 12
TypeSoftReset == 13
\* Data message types
TypeSourceCap == 1
TypeRequest == 2
TypeSinkCap == 4

\* Revision reading bit 6 alone
Revision_OneBit(h) == Field(h, 6, 1)
Revision(h) == Field(h, 6, 2)
\* uint16(r<<6): the shift is done in the uint8 type of r
SetRevision(h, r) == (h \ Mask(6, 2)) \cup Shl(BitsOf(r), 6, U8)
Revision10 == 0
Revision20 == 1
Revision30 == 2

PowerRole(h) == Field(h, 8, 1)
SetPowerRole(h, r) == (h \ {8}) \cup Shl(BitsOf(r), 8, U16)
PowerRoleSink == 0
PowerRoleSource == 1

DataRole(h) == Field(h, 5, 1)
\* uint16(r<<5): the shift is done in the uint8 type of r
SetDataRole(h, r) == (h \ {5}) \cup Shl(BitsOf(r), 5, U8)
DataRoleUFP == 0
DataRoleDFP == 1

(***************************************************************************)
(* pdmsg: power data objects and request data objects (uint32).            *)
(***************************************************************************)
PDOTypeFixedSupply == 0
PDOTypeBattery == 1
PDOTypeVariableSupply == 2
PDOTypePPS == 7
PDOTypeEPRAVS == 15

\* Type taking every augmented PDO for a PPS PDO
PDOType_TopBitsOnly(o) ==
    LET h == Field(o, 30, 2)
    IN  IF h = 3 THEN PDOTypePPS ELSE h

PDOType(o) ==
    LET h == Field(o, 30, 2)
    IN  IF h = 3 THEN Val(Shl(BitsOf(Field(o, 28, 2)), 3, U8) \cup {2} \cup BitsOf(h))
        ELSE h

NewFixedSupplyPDO == {}
FixedVoltage(o) == (Field(o, 10, 10) * 50) % 65536
FixedSetVoltage(o, v) ==
    (o \ Mask(10, 10)) \cup Shl(BitsOf(v \div 50) \cap Mask(0, 10), 10, U32)
FixedMaxCurrent(o) == (Field(o, 0, 10) * 10) % 65536
FixedSetMaxCurrent(o, v) ==
    (o \ Mask(0, 10)) \cup (BitsOf(v \div 10) \cap Mask(0, 10))

NewPPSPDO == {30, 31}
PPSMinVoltage(o) == (Field(o \cap U16, 8, 8) * 100) % 65536
PPSSetMinVoltage(o, v) ==
    (o \ Mask(8, 8)) \cup Shl(BitsOf(v \div 100) \cap Mask(0, 8), 8, U32)
PPSMaxVoltage(o) == (Field(Shr(o, 17) \cap U16, 0, 8) * 100) % 65536
PPSSetMaxVoltage(o, v) ==
    (o \ Mask(17, 8)) \cup Shl(BitsOf(v \div 100) \cap Mask(0, 8), 17, U32)
PPSMaxCurrent(o) == (Field(o \cap U16, 0, 7) * 50) % 65536
\* SetMaxCurrent clearing bits 0..8
PPSSetMaxCurrent_NineBits(o, c) ==
    (o \ Mask(0, 9)) \cup (BitsOf(c \div 50) \cap Mask(0, 7))
\* clears bits 0..7 (1<<8 - 1) and writes the 7-bit current
PPSSetMaxCurrent(o, c) ==
    (o \ Mask(0, 8)) \cup (BitsOf(c \div 50) \cap Mask(0, 7))

EmptyRequestDO == {}
SelectedObjectPosition(o) == Field(o, 28, 4)
SetSelectedObjectPosition(o, p) == (o \ Mask(28, 4)) \cup Shl(BitsOf(p), 28, U32)
CapabilityMismatch(o) == 26 \in o
SetCapabilityMismatch(o, m) == (o \ {26}) \cup (IF m THEN {26} ELSE {})
FixedOperatingCurrent(o) == (Field(o, 10, 10) * 10) % 65536
SetFixedOperatingCurrent(o, c) ==
    (o \ Mask(10, 10)) \cup Shl(BitsOf(c \div 10) \cap Mask(0, 10), 10, U32)
FixedMaxOperatingCurrent(o) == (Field(o, 0, 10) * 10) % 65536
SetFixedMaxOperatingCurrent(o, c) ==
    (o \ Mask(0, 10)) \cup (BitsOf(c \div 10) \cap Mask(0, 10))
PPSOutputVoltage(o) == (Field(o, 9, 12) * 20) % 65536
SetPPSOutputVoltage(o, v) ==
    (o \ Mask(9, 12)) \cup Shl(BitsOf(v \div 20) \cap Mask(0, 12), 9, U32)
PPSOutputCurrent(o) == (Field(o, 0, 7) * 50) % 65536
SetPPSOutputCurrent(o, v) ==
    (o \ Mask(0, 7)) \cup (BitsOf(v \div 50) \cap Mask(0, 7))

\* A message: a header and the fixed array of MaxDataObjects data objects
\* (Data[i] of the source is Data[i+1] here).
ZeroData == [i \in 1..MaxDataObjects |-> {}]
ZeroMessage == [Header |-> {}, Data |-> ZeroData]

\* byte((d >> (8*k)) & 0xff)
ByteAt(d, k) == FieldVal(d, 8 * k, 8)

\* b[idx] = v on the slice r.b: an index at or past len(b) is a run-time panic,
\* and nothing runs after a panic.
Store(r, idx, v) ==
    IF r.panicked THEN r
    ELSE IF idx >= Len(r.b) THEN [r EXCEPT !.panicked = TRUE]
    ELSE [r EXCEPT !.b[idx + 1] = v]

\* The loop of Message.ToBytes over m.Data[:c], from element i.
RECURSIVE ToBytesLoop(_, _, _, _)
ToBytesLoop(m, r, i, c) ==
    IF i >= c \/ r.panicked THEN r
    ELSE LET d == m.Data[i + 1]
         IN  ToBytesLoop(m,
                 Store(Store(Store(Store(r, 2 + i * 4, ByteAt(d, 0)),
                                   3 + i * 4, ByteAt(d, 1)),
                             4 + i * 4, ByteAt(d, 2)),
                       5 + i * 4, ByteAt(d, 3)),
                 i + 1, c)

\* ToBytes writing the high byte of the header first
ToBytes_HighByteFirst(m, b) ==
    LET r0 == Store(Store([b |-> b, panicked |-> FALSE, n |-> 0],
                          0, ByteAt(m.Header, 1)), 1, ByteAt(m.Header, 0))
        c == DataObjectCount(m.Header)
        r == ToBytesLoop(m, r0, 0, c)
    IN  IF r.panicked THEN r ELSE [r EXCEPT !.n = (2 + c * 4) % 256]

\* ToBytes serialising every slot of Data, whatever the count
ToBytes_AllSlots(m, b) ==
    LET r0 == Store(Store([b |-> b, panicked |-> FALSE, n |-> 0],
                          0, ByteAt(m.Header, 0)), 1, ByteAt(m.Header, 1))
        c == DataObjectCount(m.Header)
        r == ToBytesLoop(m, r0, 0, MaxDataObjects)
    IN  IF r.panicked THEN r ELSE [r EXCEPT !.n = (2 + c * 4) % 256]

\* Message.ToBytes(b): the slice after the call, whether the call panicked,
\* and the uint8 it returned (n, meaningful when it did not panic).
ToBytes(m, b) ==
    LET r0 == Store(Store([b |-> b, panicked |-> FALSE, n |-> 0],
                          0, ByteAt(m.Header, 0)), 1, ByteAt(m.Header, 1))
        c == DataObjectCount(m.Header)
        r == ToBytesLoop(m, r0, 0, c)
    IN  IF r.panicked THEN r ELSE [r EXCEPT !.n = (2 + c * 4) % 256]

(***************************************************************************)
(* typec: the event set (uint16), bit i is the event 1<<i.                 *)
(***************************************************************************)
EventNone == {}
EventResetReceived == {0}
EventSendReset == {1}
EventPower0A5 == {2}
EventPower1A5 == {3}
EventPower3A0 == {4}
EventAttached == {5}
EventDetached == {6}
EventRx == {7}
EventTimerTimeout == {8}

\* The loop of Pop: r = 1, 2, 4, ... 0x8000, the first r with e&r != 0.
RECURSIVE PopFrom(_, _)
PopFrom(e, i) ==
    IF i > 15 THEN [ev |-> EventNone, rest |-> e]
    ELSE IF i \in e THEN [ev |-> {i}, rest |-> e \ {i}]
    ELSE PopFrom(e, i + 1)
\* Pop searching from the last event down
Pop_LastFirst(e) ==
    IF e = {} THEN [ev |-> EventNone, rest |-> e]
    ELSE LET i == CHOOSE k \in e : \A j \in e : j <= k
         IN  [ev |-> {i}, rest |-> e \ {i}]

\* Pop returning EventRx ahead of every other event
Pop_RxFirst(e) ==
    IF 7 \in e THEN [ev |-> {7}, rest |-> e \ {7}]
    ELSE PopFrom(e, 0)

\* Event.Pop: the event returned and the set left behind.
Pop(e) == IF e = {} THEN [ev |-> EventNone, rest |-> e] ELSE PopFrom(e, 0)
\* Event.Add
Add(e, v) == e \cup v
\* Event.Has
Has(e, v) == (e \cap v) # {}

(***************************************************************************)
(* tcdpm: the constant voltage policy.  A policy is a record               *)
(* [MinVoltage, MaxVoltage, Current, PreferLowerVoltage, PreferPPS].       *)
(***************************************************************************)
cvCurrentMargin == 150
MaxUint16 == 65535

\* The loop body comparing the fixed voltages with >= and <=
CVLoopBody_LastWins(c, a, i, p) ==
    LET ppsMaxCurrent == (c.Current + cvCurrentMargin) % 65536
    IN
    IF PDOType(p) = PDOTypeFixedSupply THEN
        LET v == FixedVoltage(p)
        IN  IF /\ v >= c.MinVoltage /\ v <= c.MaxVoltage
               /\ FixedMaxCurrent(p) >= c.Current
               /\ \/ (c.PreferLowerVoltage /\ v <= a.bestFixedVoltage)
                  \/ (~c.PreferLowerVoltage /\ v >= a.bestFixedVoltage)
            THEN [a EXCEPT
                    !.bestFixedRDO =
                        SetFixedOperatingCurrent(
                            SetFixedMaxOperatingCurrent(
                                SetSelectedObjectPosition(@, (i + 1) % 256),
                                c.Current),
                            c.Current),
                    !.bestFixedVoltage = v]
            ELSE a
    ELSE IF PDOType(p) = PDOTypePPS THEN
        LET minV == IF c.MinVoltage < PPSMinVoltage(p) THEN PPSMinVoltage(p)
                    ELSE c.MinVoltage
            maxV == IF c.MaxVoltage > PPSMaxVoltage(p) THEN PPSMaxVoltage(p)
                    ELSE c.MaxVoltage
        IN  IF minV <= maxV /\ ppsMaxCurrent <= PPSMaxCurrent(p) THEN
                IF c.PreferLowerVoltage /\ minV < a.bestPPSVoltage THEN
                    [a EXCEPT
                        !.bestPPSRDO =
                            SetPPSOutputCurrent(
                                SetPPSOutputVoltage(
                                    SetSelectedObjectPosition(@, (i + 1) % 256),
                                    minV),
                                c.Current),
                        !.bestPPSVoltage = minV]
                ELSE IF ~c.PreferLowerVoltage /\ maxV > a.bestPPSVoltage THEN
                    [a EXCEPT
                        !.bestPPSRDO =
                            SetPPSOutputCurrent(
                                SetPPSOutputVoltage(
                                    SetSelectedObjectPosition(@, (i + 1) % 256),
                                    maxV),
                                c.Current),
                        !.bestPPSVoltage = maxV]
                ELSE a
            ELSE a
    ELSE a

\* One pass of the loop body of CVPolicy.EvaluateCapabilities for pdos[i]
\* (i counted from 0), on the accumulators a.
CVLoopBody(c, a, i, p) ==
    LET ppsMaxCurrent == (c.Current + cvCurrentMargin) % 65536
    IN
    IF PDOType(p) = PDOTypeFixedSupply THEN
        LET v == FixedVoltage(p)
        IN  IF /\ v >= c.MinVoltage /\ v <= c.MaxVoltage
               /\ FixedMaxCurrent(p) >= c.Current
               /\ \/ (c.PreferLowerVoltage /\ v < a.bestFixedVoltage)
                  \/ (~c.PreferLowerVoltage /\ v > a.bestFixedVoltage)
            THEN [a EXCEPT
                    !.bestFixedRDO =
                        SetFixedOperatingCurrent(
                            SetFixedMaxOperatingCurrent(
                                SetSelectedObjectPosition(@, (i + 1) % 256),
                                c.Current),
                            c.Current),
                    !.bestFixedVoltage = v]
            ELSE a
    ELSE IF PDOType(p) = PDOTypePPS THEN
        LET minV == IF c.MinVoltage < PPSMinVoltage(p) THEN PPSMinVoltage(p)
                    ELSE c.MinVoltage
            maxV == IF c.MaxVoltage > PPSMaxVoltage(p) THEN PPSMaxVoltage(p)
                    ELSE c.MaxVoltage
        IN  IF minV <= maxV /\ ppsMaxCurrent <= PPSMaxCurrent(p) THEN
                IF c.PreferLowerVoltage /\ minV < a.bestPPSVoltage THEN
                    [a EXCEPT
                        !.bestPPSRDO =
                            SetPPSOutputCurrent(
                                SetPPSOutputVoltage(
                                    SetSelectedObjectPosition(@, (i + 1) % 256),
                                    minV),
                                c.Current),
                        !.bestPPSVoltage = minV]
                ELSE IF ~c.PreferLowerVoltage /\ maxV > a.bestPPSVoltage THEN
                    [a EXCEPT
                        !.bestPPSRDO =
                            SetPPSOutputCurrent(
                                SetPPSOutputVoltage(
                                    SetSelectedObjectPosition(@, (i + 1) % 256),
                                    maxV),
                                c.Current),
                        !.bestPPSVoltage = maxV]
                ELSE a
            ELSE a
    ELSE a

RECURSIVE CVLoop(_, _, _, _)
CVLoop(c, a, i, pdos) ==
    IF i >= Len(pdos) THEN a
    ELSE CVLoop(c, CVLoopBody(c, a, i, pdos[i + 1]), i + 1, pdos)

\* EvaluateCapabilities returning the PPS pick whenever there is one
CVEvaluateCapabilities_PPSFirst(c, pdos) ==
    LET best0 == IF c.PreferLowerVoltage THEN MaxUint16 ELSE 0
        a == CVLoop(c, [bestFixedVoltage |-> best0, bestPPSVoltage |-> best0,
                        bestFixedRDO |-> EmptyRequestDO,
                        bestPPSRDO |-> EmptyRequestDO], 0, pdos)
    IN  IF a.bestPPSRDO = EmptyRequestDO THEN a.bestFixedRDO ELSE a.bestPPSRDO

\* CVPolicy.EvaluateCapabilities
CVEvaluateCapabilities(c, pdos) ==
    LET best0 == IF c.PreferLowerVoltage THEN MaxUint16 ELSE 0
        a == CVLoop(c, [bestFixedVoltage |-> best0, bestPPSVoltage |-> best0,
                        bestFixedRDO |-> EmptyRequestDO,
                        bestPPSRDO |-> EmptyRequestDO], 0, pdos)
    IN  IF a.bestFixedRDO = EmptyRequestDO THEN a.bestPPSRDO
        ELSE IF a.bestPPSRDO = EmptyRequestDO THEN a.bestFixedRDO
        ELSE IF c.PreferPPS THEN a.bestPPSRDO
        ELSE a.bestFixedRDO

\* CVPolicy.Validate: TRUE when it returns nil.
CVValidate(c) ==
    /\ ~(c.Current > 5000)
    /\ ~(c.MinVoltage < 3300 \/ c.MaxVoltage < 3300
         \/ c.MinVoltage > 21000 \/ c.MaxVoltage > 21000)
    /\ ~(c.MinVoltage > c.MaxVoltage)

(***************************************************************************)
(* tcdpm: the constant current policy.  A policy is a record               *)
(* [MinVoltage, MaxVoltage, MinCurrent, MaxCurrent, PreferLowerVoltage].   *)
(***************************************************************************)
\* CCPolicy.Validate: TRUE when it returns nil.
CCValidate(c) ==
    /\ ~(c.MinCurrent < 1000 \/ c.MaxCurrent < 1000
         \/ c.MinCurrent > 5000 \/ c.MaxCurrent > 5000)
    /\ ~(c.MinVoltage < 3300 \/ c.MaxVoltage < 3300
         \/ c.MinVoltage > 21000 \/ c.MaxVoltage > 21000)
    /\ ~(c.MinCurrent > c.MaxCurrent)
    /\ ~(c.MinVoltage > c.MaxVoltage)

\* The loop body requiring the source to supply MaxCurrent
CCLoopBody_NeedsMaxCurrent(c, a, i, p) ==
    IF PDOType(p) # PDOTypePPS THEN a
    ELSE
        LET minV == IF c.MinVoltage < PPSMinVoltage(p) THEN PPSMinVoltage(p)
                    ELSE c.MinVoltage
            maxV == IF c.MaxVoltage > PPSMaxVoltage(p) THEN PPSMaxVoltage(p)
                    ELSE c.MaxVoltage
        IN  IF minV <= maxV /\ PPSMaxCurrent(p) >= c.MaxCurrent THEN
                LET cur == IF PPSMaxCurrent(p) > c.MaxCurrent THEN c.MaxCurrent
                           ELSE PPSMaxCurrent(p)
                IN  IF c.PreferLowerVoltage /\ minV < a.bestVoltage THEN
                        [rdo |-> SetPPSOutputCurrent(
                                     SetPPSOutputVoltage(
                                         SetSelectedObjectPosition(a.rdo, (i + 1) % 256),
                                         minV),
                                     cur),
                         bestVoltage |-> minV]
                    ELSE IF ~c.PreferLowerVoltage /\ maxV > a.bestVoltage THEN
                        [rdo |-> SetPPSOutputCurrent(
                                     SetPPSOutputVoltage(
                                         SetSelectedObjectPosition(a.rdo, (i + 1) % 256),
                                         maxV),
                                     cur),
                         bestVoltage |-> maxV]
                    ELSE a
            ELSE a

\* One pass of the loop body of CCPolicy.EvaluateCapabilities for pdos[i]
\* (i counted from 0), on the accumulators a.
CCLoopBody(c, a, i, p) ==
    IF PDOType(p) # PDOTypePPS THEN a
    ELSE
        LET minV == IF c.MinVoltage < PPSMinVoltage(p) THEN PPSMinVoltage(p)
                    ELSE c.MinVoltage
            maxV == IF c.MaxVoltage > PPSMaxVoltage(p) THEN PPSMaxVoltage(p)
                    ELSE c.MaxVoltage
        IN  IF minV <= maxV /\ PPSMaxCurrent(p) >= c.MinCurrent THEN
                LET cur == IF PPSMaxCurrent(p) > c.MaxCurrent THEN c.MaxCurrent
                           ELSE PPSMaxCurrent(p)
                IN  IF c.PreferLowerVoltage /\ minV < a.bestVoltage THEN
                        [rdo |-> SetPPSOutputCurrent(
                                     SetPPSOutputVoltage(
                                         SetSelectedObjectPosition(a.rdo, (i + 1) % 256),
                                         minV),
                                     cur),
                         bestVoltage |-> minV]
                    ELSE IF ~c.PreferLowerVoltage /\ maxV > a.bestVoltage THEN
                        [rdo |-> SetPPSOutputCurrent(
                                     SetPPSOutputVoltage(
                                         SetSelectedObjectPosition(a.rdo, (i + 1) % 256),
                                         maxV),
                                     cur),
                         bestVoltage |-> maxV]
                    ELSE a
            ELSE a

RECURSIVE CCLoop(_, _, _, _)
CCLoop(c, a, i, pdos) ==
    IF i >= Len(pdos) THEN a
    ELSE CCLoop(c, CCLoopBody(c, a, i, pdos[i + 1]), i + 1, pdos)

\* CCPolicy.EvaluateCapabilities
CCEvaluateCapabilities(c, pdos) ==
    CCLoop(c, [rdo |-> EmptyRequestDO,
               bestVoltage |-> IF c.PreferLowerVoltage THEN MaxUint16 ELSE 0],
           0, pdos).rdo

(***************************************************************************)
(* tcdpm: the constant power policy.  A policy is a record                 *)
(* [MinVoltage, MaxVoltage, Power, PreferLowerVoltage, PreferPPS].  The    *)
(* uint16 divisions panic on a zero divisor; the accumulators carry the   *)
(* panic, after which nothing else runs.                                   *)
(***************************************************************************)
\* One pass of the loop body of CPPolicy.EvaluateCapabilities for pdos[i]
\* (i counted from 0), on the accumulators a.
CPLoopBody(c, a, i, p) ==
    IF a.panicked THEN a
    ELSE IF PDOType(p) = PDOTypeFixedSupply THEN
        LET v == FixedVoltage(p)
        IN  IF v = 0 THEN [a EXCEPT !.panicked = TRUE]
            ELSE
            LET maxCur == c.Power \div v
            IN  IF /\ v >= c.MinVoltage /\ v <= c.MaxVoltage
                   /\ FixedMaxCurrent(p) >= maxCur
                   /\ \/ (c.PreferLowerVoltage /\ v < a.bestFixedVoltage)
                      \/ (~c.PreferLowerVoltage /\ v > a.bestFixedVoltage)
                THEN [a EXCEPT
                        !.bestFixedRDO =
                            SetFixedOperatingCurrent(
                                SetFixedMaxOperatingCurrent(
                                    SetSelectedObjectPosition(@, (i + 1) % 256),
                                    maxCur),
                                maxCur),
                        !.bestFixedVoltage = v]
                ELSE a
    ELSE IF PDOType(p) = PDOTypePPS THEN
        LET minV == IF c.MinVoltage < PPSMinVoltage(p) THEN PPSMinVoltage(p)
                    ELSE c.MinVoltage
            maxV == IF c.MaxVoltage > PPSMaxVoltage(p) THEN PPSMaxVoltage(p)
                    ELSE c.MaxVoltage
            room == (PPSMaxCurrent(p) + 65536 - cvCurrentMargin) % 65536
        IN  IF minV <= maxV THEN
                IF maxV = 0 \/ room = 0 THEN [a EXCEPT !.panicked = TRUE]
                ELSE
                LET maxC == ((c.Power \div maxV) + cvCurrentMargin) % 65536
                    minPV0 == c.Power \div room
                    minPV == IF minPV0 < minV THEN minV ELSE minPV0
                IN  IF c.PreferLowerVoltage /\ minPV < a.bestPPSVoltage /\ minPV <= maxV
                    THEN IF minPV = 0 THEN [a EXCEPT !.panicked = TRUE]
                         ELSE [a EXCEPT
                                 !.bestPPSRDO =
                                     SetPPSOutputCurrent(
                                         SetPPSOutputVoltage(
                                             SetSelectedObjectPosition(@, (i + 1) % 256),
                                             minPV),
                                         c.Power \div minPV),
                                 !.bestPPSVoltage = minPV]
                    ELSE IF /\ ~c.PreferLowerVoltage /\ maxV > a.bestPPSVoltage
                            /\ maxC <= PPSMaxCurrent(p)
                    THEN [a EXCEPT
                            !.bestPPSRDO =
                                SetPPSOutputCurrent(
                                    SetPPSOutputVoltage(
                                        SetSelectedObjectPosition(@, (i + 1) % 256),
                                        maxV),
                                    maxC),
                            !.bestPPSVoltage = maxV]
                    ELSE a
            ELSE a
    ELSE a

RECURSIVE CPLoop(_, _, _, _)
CPLoop(c, a, i, pdos) ==
    IF i >= Len(pdos) THEN a
    ELSE CPLoop(c, CPLoopBody(c, a, i, pdos[i + 1]), i + 1, pdos)

\* CPPolicy.EvaluateCapabilities: the accumulators at the end of the loop
CPAccumulate(c, pdos) ==
    LET best0 == IF c.PreferLowerVoltage THEN MaxUint16 ELSE 0
    IN  CPLoop(c, [bestFixedVoltage |-> best0, bestPPSVoltage |-> best0,
                   bestFixedRDO |-> EmptyRequestDO, bestPPSRDO |-> EmptyRequestDO,
                   panicked |-> FALSE], 0, pdos)

\* CPPolicy.EvaluateCapabilities: what it returns when it does not panic
CPEvaluateCapabilities(c, pdos) ==
    LET a == CPAccumulate(c, pdos)
    IN  IF a.bestFixedRDO = EmptyRequestDO THEN a.bestPPSRDO
        ELSE IF a.bestPPSRDO = EmptyRequestDO THEN a.bestFixedRDO
        ELSE IF c.PreferPPS THEN a.bestPPSRDO
        ELSE a.bestFixedRDO


(***************************************************************************)
(* tcpe: the policy engine.                                                *)
(*                                                                         *)
(* pe is the PolicyEngine context owned by the Run loop.  The fields       *)
(* guarded by a mutex are variables of their own: events (pe.mu), dpm      *)
(* (pe.dpm) and fn (pe.powerChangeCallback).  pdoBuf is scratch space that *)
(* is rewritten before each use and is not kept.                           *)
(***************************************************************************)
VARIABLES
    cur,        \* Run: the current state
    entering,   \* Run: TRUE when the next iteration enters cur
    run,        \* "running", "returned" (ctx done) or "panicked" (run-time panic)
    ctxDone,    \* the context passed to Run has been cancelled
    pe,         \* the engine context
    events,     \* pe.events
    dpm,        \* pe.dpm.dpm: [nil, policy]
    fn,         \* pe.powerChangeCallback.fn is set
    rxQueue,    \* port controller: received messages not yet pulled by Rx
    queueSize,  \* port controller: the capacity of its message queue
    txCount,    \* number of Tx calls since the last entry into SinkStartup
    txOut,      \* messages handed to Tx by the latest step
    cbOut,      \* PowerChangeDetails passed to the callback by the latest step
    hrOut,      \* number of SendReset calls of the latest step
    rxOut,      \* latest step: what rx() dropped and what it returned (RxNote)
    eOut,       \* latest step: the event it handled (popped, or the timeout)
    errOut,     \* latest step: the port controller call that failed, or "nil"
    bench       \* a codec word or an event set under calls made outside the engine

vars == <<cur, entering, run, ctxDone, pe, events, dpm, fn, rxQueue, queueSize, txCount,
          txOut, cbOut, hrOut, rxOut, eOut, errOut, bench>>

\* Timers in milliseconds; maxTimerExpiry stands for the instant that never comes.
maxTimerExpiry == 1000000000
timerPSTransition == 550
timerSenderResponse == 32
timerSinkPPSPeriodic == 10000
timerSinkRequest == 100
timerSinkWaitCap == 620

\* defaultRDO as set up by init()
defaultRDO ==
    SetFixedOperatingCurrent(
        SetFixedMaxOperatingCurrent(
            SetSelectedObjectPosition(EmptyRequestDO, 1), 100), 100)

\* The states.  Nil is the nil *state.
Nil == "nil"
stateNoPD == "SinkNoPD"
stateSinkStartup == "SinkStartup"
stateSinkDiscovery == "SinkDiscovery"
stateSinkWaitForCapabilities == "SinkWaitForCapabilities"
stateSinkEvaluateCapabilities == "SinkEvaluateCapabilities"
stateSinkSelectCapabilities == "SinkSelectCapabilities"
stateSinkTransitionSink == "SinkTransitionSink"
stateSinkReady == "SinkReady"
stateSinkHardReset == "SinkHardReset"
States == {stateNoPD, stateSinkStartup, stateSinkDiscovery,
           stateSinkWaitForCapabilities, stateSinkEvaluateCapabilities,
           stateSinkSelectCapabilities, stateSinkTransitionSink,
           stateSinkReady, stateSinkHardReset}

\* New(pc): the engine context after construction.
New ==
    [timerExpiry |-> maxTimerExpiry,
     sourceCapMsg |-> ZeroMessage,
     requestDO |-> EmptyRequestDO,
     msgTpl |-> [Header |-> SetExtended(SetDataRole(SetPowerRole({}, PowerRoleSink),
                                                    DataRoleUFP), FALSE),
                 Data |-> ZeroData],
     explicitContract |-> FALSE,
     waitingOnSource |-> FALSE,
     v5PDO |-> FixedSetVoltage(NewFixedSupplyPDO, 5000),
     nextTxID |-> 0,
     lastRxID |-> 0]

\* What a state function hands back to Run: the context as it left it, the next
\* state, whether it returned an error, what it sent to the port controller and
\* to the callback, and whether it panicked.
Result(p, next, err) ==
    [pe |-> p, next |-> next, err |-> err, tx |-> <<>>, cb |-> <<>>, hr |-> 0,
     init |-> FALSE, panic |-> FALSE]

\* PolicyEngine.evalCaps, with d the DPM slot
evalCaps(d, pdos) ==
    IF ~d.nil THEN CVEvaluateCapabilities(d.policy, pdos) ELSE EmptyRequestDO

\* tx without the wrap-around of the counter
tx_NoWrap(p, m) ==
    [sent |-> [m EXCEPT !.Header = SetID(@, p.nextTxID)],
     pe |-> [p EXCEPT !.nextTxID = p.nextTxID + 1]]

\* PolicyEngine.tx: the message as handed to Tx and the context afterwards
tx(p, m) ==
    [sent |-> [m EXCEPT !.Header = SetID(@, p.nextTxID)],
     pe |-> [p EXCEPT !.nextTxID = (p.nextTxID + 1) % 8]]

\* PolicyEngine.sendRDO
sendRDO(p, rdo) ==
    LET m == [Header |-> SetDataObjectCount(SetType(p.msgTpl.Header, TypeRequest), 1),
              Data |-> [p.msgTpl.Data EXCEPT ![1] = rdo]]
    IN  tx(p, m)

\* PolicyEngine.startTimer
startTimer(p, d) == [p EXCEPT !.timerExpiry = d]

\* The index expression SelectedObjectPosition()-1 in uint8 arithmetic; an index
\* outside the Data array is a run-time panic.
DataIndex(rdo) == (SelectedObjectPosition(rdo) + 255) % 256
IndexPanics(i) == i >= MaxDataObjects

\* PolicyEngine.ppsNegotiated: "panic" when the index is out of range
ppsNegotiated(p) ==
    LET pos == SelectedObjectPosition(p.requestDO)
    IN  IF pos = 0 THEN "false"
        ELSE IF IndexPanics(pos - 1) THEN "panic"
        ELSE IF PDOType(p.sourceCapMsg.Data[pos]) = PDOTypePPS THEN "true"
        ELSE "false"

\* The PowerChangeDetail that alertPCCB builds.
PowerChangeDetail(on, v, c, cs) ==
    [On |-> on, Voltage |-> v, MaxCurrent |-> c, CurrentSource |-> cs]

\* PolicyEngine.alertPCCB: the callbacks made (none when fn is nil) and whether
\* the index into sourceCapMsg.Data panicked.
alertPCCB(p, on, f) ==
    IF ~on THEN
        [cb |-> IF f THEN <<PowerChangeDetail(FALSE, 0, 0, FALSE)>> ELSE <<>>,
         panic |-> FALSE]
    ELSE IF IndexPanics(DataIndex(p.requestDO)) THEN [cb |-> <<>>, panic |-> TRUE]
    ELSE
        LET pdo == p.sourceCapMsg.Data[DataIndex(p.requestDO) + 1]
            pcd == IF PDOType(pdo) = PDOTypeFixedSupply THEN
                       PowerChangeDetail(TRUE, FixedVoltage(pdo),
                                         FixedMaxOperatingCurrent(p.requestDO), FALSE)
                   ELSE IF PDOType(pdo) = PDOTypePPS THEN
                       PowerChangeDetail(TRUE, PPSOutputVoltage(p.requestDO),
                                         PPSOutputCurrent(p.requestDO), TRUE)
                   ELSE PowerChangeDetail(TRUE, 0, 0, FALSE)
        IN  [cb |-> IF f THEN <<pcd>> ELSE <<>>, panic |-> FALSE]


(***************************************************************************)
(* The Enter functions of the states.  d is the DPM slot, f tells whether  *)
(* a callback is set, ok whether the port controller call made by the      *)
(* function (Init, Tx or SendReset) succeeds.                              *)
(***************************************************************************)
EnterNoPD(p, d, f, ok) ==
    LET rdo == evalCaps(d, <<p.v5PDO>>)
        a == alertPCCB(p, rdo # EmptyRequestDO, f)
    IN  [Result(p, Nil, FALSE) EXCEPT !.cb = a.cb, !.panic = a.panic]

\* SinkStartup's Enter sending a hard reset of its own
EnterSinkStartup_SendsReset(p, d, f, ok) ==
    LET p1 == [p EXCEPT !.nextTxID = 0, !.lastRxID = 8]
        a == alertPCCB(p1, FALSE, f)
        p2 == [p1 EXCEPT !.explicitContract = FALSE]
    IN  [Result(p2, stateSinkDiscovery, ~ok) EXCEPT !.cb = a.cb, !.init = ok, !.hr = 1]

\* SinkStartup's Enter forgetting the current advertised by Rp
EnterSinkStartup_ClearsRp(p, d, f, ok) ==
    LET p1 == [p EXCEPT !.nextTxID = 0, !.lastRxID = 8,
                        !.v5PDO = FixedSetMaxCurrent(@, 0)]
        a == alertPCCB(p1, FALSE, f)
        p2 == [p1 EXCEPT !.explicitContract = FALSE]
    IN  [Result(p2, stateSinkDiscovery, ~ok) EXCEPT !.cb = a.cb, !.init = ok]

EnterSinkStartup(p, d, f, ok) ==
    LET p1 == [p EXCEPT !.nextTxID = 0, !.lastRxID = 8]
        a == alertPCCB(p1, FALSE, f)
        p2 == [p1 EXCEPT !.explicitContract = FALSE]
    IN  [Result(p2, stateSinkDiscovery, ~ok) EXCEPT !.cb = a.cb, !.init = ok]

EnterSinkWaitForCapabilities(p, d, f, ok) ==
    Result(startTimer(p, timerSinkWaitCap), Nil, FALSE)

\* SinkEvaluateCapabilities' Enter leaving out the last PDO
EnterSinkEvaluateCapabilities_DropsLast(p, d, f, ok) ==
    LET l == DataObjectCount(p.sourceCapMsg.Header)
        pdos == [i \in 1..(l - 1) |-> p.sourceCapMsg.Data[i]]
    IN  Result([p EXCEPT !.requestDO = evalCaps(d, pdos)],
               stateSinkSelectCapabilities, FALSE)

EnterSinkEvaluateCapabilities(p, d, f, ok) ==
    LET l == DataObjectCount(p.sourceCapMsg.Header)
        pdos == [i \in 1..l |-> p.sourceCapMsg.Data[i]]
    IN  Result([p EXCEPT !.requestDO = evalCaps(d, pdos)],
               stateSinkSelectCapabilities, FALSE)

\* SinkSelectCapabilities' Enter sending the RDO of the DPM as it is
EnterSinkSelectCapabilities_SendsEmpty(p, d, f, ok) ==
    LET t == sendRDO(p, p.requestDO)
    IN  IF ~ok THEN [Result(t.pe, Nil, TRUE) EXCEPT !.tx = <<t.sent>>]
        ELSE [Result(startTimer(t.pe, timerSenderResponse), Nil, FALSE)
                EXCEPT !.tx = <<t.sent>>]

EnterSinkSelectCapabilities(p, d, f, ok) ==
    LET rdo == IF p.requestDO = EmptyRequestDO THEN defaultRDO ELSE p.requestDO
        t == sendRDO(p, rdo)
    IN  IF ~ok THEN [Result(t.pe, Nil, TRUE) EXCEPT !.tx = <<t.sent>>]
        ELSE [Result(startTimer(t.pe, timerSenderResponse), Nil, FALSE)
                EXCEPT !.tx = <<t.sent>>]

EnterSinkTransitionSink(p, d, f, ok) ==
    Result(startTimer(p, timerPSTransition), Nil, FALSE)

\* SinkReady's Enter without the periodic timer of a PPS contract
EnterSinkReady_NoPeriodic(p, d, f, ok) ==
    IF p.waitingOnSource THEN Result(startTimer(p, timerSinkRequest), Nil, FALSE)
    ELSE IF ppsNegotiated(p) = "panic" THEN [Result(p, Nil, FALSE) EXCEPT !.panic = TRUE]
    ELSE Result(p, Nil, FALSE)

\* SinkReady's Enter looking at the PPS contract first
EnterSinkReady_PPSFirst(p, d, f, ok) ==
    IF ppsNegotiated(p) = "panic" THEN [Result(p, Nil, FALSE) EXCEPT !.panic = TRUE]
    ELSE IF ppsNegotiated(p) = "true" THEN
        Result(startTimer(p, timerSinkPPSPeriodic), Nil, FALSE)
    ELSE IF p.waitingOnSource THEN Result(startTimer(p, timerSinkRequest), Nil, FALSE)
    ELSE Result(p, Nil, FALSE)

EnterSinkReady(p, d, f, ok) ==
    IF p.waitingOnSource THEN Result(startTimer(p, timerSinkRequest), Nil, FALSE)
    ELSE IF ppsNegotiated(p) = "panic" THEN [Result(p, Nil, FALSE) EXCEPT !.panic = TRUE]
    ELSE IF ppsNegotiated(p) = "true" THEN
        Result(startTimer(p, timerSinkPPSPeriodic), Nil, FALSE)
    ELSE Result(p, Nil, FALSE)

EnterSinkHardReset(p, d, f, ok) ==
    [Result(p, stateSinkStartup, ~ok) EXCEPT !.hr = 1]

\* cur.Enter(pe); SinkDiscovery has no Enter
Enter(s, p, d, f, ok) ==
    CASE s = stateNoPD -> EnterNoPD(p, d, f, ok)
      [] s = stateSinkStartup -> EnterSinkStartup(p, d, f, ok)
      [] s = stateSinkDiscovery -> Result(p, Nil, FALSE)
      [] s = stateSinkWaitForCapabilities -> EnterSinkWaitForCapabilities(p, d, f, ok)
      [] s = stateSinkEvaluateCapabilities -> EnterSinkEvaluateCapabilities(p, d, f, ok)
      [] s = stateSinkSelectCapabilities -> EnterSinkSelectCapabilities(p, d, f, ok)
      [] s = stateSinkTransitionSink -> EnterSinkTransitionSink(p, d, f, ok)
      [] s = stateSinkReady -> EnterSinkReady(p, d, f, ok)
      [] s = stateSinkHardReset -> EnterSinkHardReset(p, d, f, ok)

\* The Enter functions that call the port controller and so may fail.
CallsPortController(s) ==
    s \in {stateSinkStartup, stateSinkSelectCapabilities, stateSinkHardReset}

\* The call of the port controller that the Enter function of s makes.
EnterCall(s) ==
    CASE s = stateSinkStartup -> "Init"
      [] s = stateSinkSelectCapabilities -> "Tx"
      [] s = stateSinkHardReset -> "SendReset"
      [] OTHER -> "nil"

(***************************************************************************)
(* The Process functions of the states, for message m and event e.         *)
(***************************************************************************)
\* Process of NoPD taking up capabilities that arrive late
ProcessNoPD_TakesCaps(p, m, e, f) ==
    IF e = EventRx /\ IsData(m.Header) /\ Type(m.Header) = TypeSourceCap THEN
        Result([p EXCEPT !.sourceCapMsg = m], stateSinkEvaluateCapabilities, FALSE)
    ELSE Result(p, Nil, FALSE)

ProcessNoPD(p, m, e, f) == Result(p, Nil, FALSE)

ProcessSinkDiscovery(p, m, e, f) ==
    IF e = EventAttached THEN Result(p, stateSinkWaitForCapabilities, FALSE)
    ELSE Result(p, Nil, FALSE)

\* Process of SinkWaitForCapabilities going to SinkHardReset on every timeout
ProcessSinkWaitForCapabilities_NoRpCheck(p, m, e, f) ==
    IF e = EventTimerTimeout THEN
        Result(p, stateSinkHardReset, FALSE)
    ELSE IF e = EventRx /\ IsData(m.Header) /\ Type(m.Header) = TypeSourceCap THEN
        LET r == Revision(m.Header)
        IN  Result([p EXCEPT !.sourceCapMsg = m,
                             !.msgTpl.Header =
                                 IF r < Revision30 THEN SetRevision(@, r)
                                 ELSE SetRevision(@, Revision30)],
                   stateSinkEvaluateCapabilities, FALSE)
    ELSE Result(p, Nil, FALSE)

\* Process of SinkWaitForCapabilities taking over the revision as received
ProcessSinkWaitForCapabilities_NoClamp(p, m, e, f) ==
    IF e = EventTimerTimeout THEN
        IF FixedMaxCurrent(p.v5PDO) > 0 THEN Result(p, stateNoPD, FALSE)
        ELSE Result(p, stateSinkHardReset, FALSE)
    ELSE IF e = EventRx /\ IsData(m.Header) /\ Type(m.Header) = TypeSourceCap THEN
        LET r == Revision(m.Header)
        IN  Result([p EXCEPT !.sourceCapMsg = m,
                             !.msgTpl.Header =
                                 SetRevision(@, r)],
                   stateSinkEvaluateCapabilities, FALSE)
    ELSE Result(p, Nil, FALSE)

ProcessSinkWaitForCapabilities(p, m, e, f) ==
    IF e = EventTimerTimeout THEN
        IF FixedMaxCurrent(p.v5PDO) > 0 THEN Result(p, stateNoPD, FALSE)
        ELSE Result(p, stateSinkHardReset, FALSE)
    ELSE IF e = EventRx /\ IsData(m.Header) /\ Type(m.Header) = TypeSourceCap THEN
        LET r == Revision(m.Header)
        IN  Result([p EXCEPT !.sourceCapMsg = m,
                             !.msgTpl.Header =
                                 IF r < Revision30 THEN SetRevision(@, r)
                                 ELSE SetRevision(@, Revision30)],
                   stateSinkEvaluateCapabilities, FALSE)
    ELSE Result(p, Nil, FALSE)

\* SinkSelectCapabilities' Process treating Reject as the standard does
ProcessSinkSelectCapabilities_RejectToReady(p, m, e, f) ==
    IF e = EventTimerTimeout THEN Result(p, stateSinkHardReset, FALSE)
    ELSE IF e = EventRx /\ ~IsData(m.Header) THEN
        IF Type(m.Header) = TypeAccept THEN
            Result([p EXCEPT !.waitingOnSource = FALSE, !.explicitContract = TRUE],
                   stateSinkTransitionSink, FALSE)
        ELSE IF Type(m.Header) = TypeReject THEN
            IF p.explicitContract THEN Result(p, stateSinkReady, FALSE)
            ELSE Result(p, stateSinkWaitForCapabilities, FALSE)
        ELSE IF Type(m.Header) = TypeWait THEN
            LET p1 == [p EXCEPT !.waitingOnSource = TRUE]
            IN  IF p1.explicitContract THEN Result(p1, stateSinkReady, FALSE)
                ELSE Result(p1, stateSinkWaitForCapabilities, FALSE)
        ELSE Result(p, Nil, FALSE)
    ELSE Result(p, Nil, FALSE)

\* SinkSelectCapabilities' Process going to SinkReady on every Wait
ProcessSinkSelectCapabilities_WaitToReady(p, m, e, f) ==
    IF e = EventTimerTimeout THEN Result(p, stateSinkHardReset, FALSE)
    ELSE IF e = EventRx /\ ~IsData(m.Header) THEN
        IF Type(m.Header) = TypeAccept THEN
            Result([p EXCEPT !.waitingOnSource = FALSE, !.explicitContract = TRUE],
                   stateSinkTransitionSink, FALSE)
        ELSE IF Type(m.Header) = TypeReject THEN
            Result(p, stateSinkHardReset, FALSE)
        ELSE IF Type(m.Header) = TypeWait THEN
            Result([p EXCEPT !.waitingOnSource = TRUE], stateSinkReady, FALSE)
        ELSE Result(p, Nil, FALSE)
    ELSE Result(p, Nil, FALSE)

ProcessSinkSelectCapabilities(p, m, e, f) ==
    IF e = EventTimerTimeout THEN Result(p, stateSinkHardReset, FALSE)
    ELSE IF e = EventRx /\ ~IsData(m.Header) THEN
        IF Type(m.Header) = TypeAccept THEN
            Result([p EXCEPT !.waitingOnSource = FALSE, !.explicitContract = TRUE],
                   stateSinkTransitionSink, FALSE)
        ELSE IF Type(m.Header) = TypeReject THEN
            Result(p, stateSinkHardReset, FALSE)
        ELSE IF Type(m.Header) = TypeWait THEN
            LET p1 == [p EXCEPT !.waitingOnSource = TRUE]
            IN  IF p1.explicitContract THEN Result(p1, stateSinkReady, FALSE)
                ELSE Result(p1, stateSinkWaitForCapabilities, FALSE)
        ELSE Result(p, Nil, FALSE)
    ELSE Result(p, Nil, FALSE)

ProcessSinkTransitionSink(p, m, e, f) ==
    IF e = EventTimerTimeout THEN Result(p, stateSinkHardReset, FALSE)
    ELSE IF e = EventRx /\ ~IsData(m.Header) /\ Type(m.Header) = TypePSReady THEN
        IF p.requestDO # EmptyRequestDO THEN
            LET a == alertPCCB(p, TRUE, f)
            IN  IF a.panic THEN [Result(p, Nil, FALSE) EXCEPT !.panic = TRUE]
                ELSE [Result(p, stateSinkReady, FALSE) EXCEPT !.cb = a.cb]
        ELSE Result(p, stateSinkReady, FALSE)
    ELSE Result(p, Nil, FALSE)

ProcessSinkReady(p, m, e, f) ==
    IF e = EventTimerTimeout THEN Result(p, stateSinkSelectCapabilities, FALSE)
    ELSE IF e = EventRx /\ IsData(m.Header) /\ Type(m.Header) = TypeSourceCap THEN
        Result([p EXCEPT !.sourceCapMsg = m], stateSinkEvaluateCapabilities, FALSE)
    ELSE Result(p, Nil, FALSE)

\* cur.Process(pe, m, e).  SinkStartup, SinkEvaluateCapabilities and
\* SinkHardReset have no Process: calling it is a nil dereference.
Process(s, p, m, e, f) ==
    CASE s = stateNoPD -> ProcessNoPD(p, m, e, f)
      [] s = stateSinkDiscovery -> ProcessSinkDiscovery(p, m, e, f)
      [] s = stateSinkWaitForCapabilities -> ProcessSinkWaitForCapabilities(p, m, e, f)
      [] s = stateSinkSelectCapabilities -> ProcessSinkSelectCapabilities(p, m, e, f)
      [] s = stateSinkTransitionSink -> ProcessSinkTransitionSink(p, m, e, f)
      [] s = stateSinkReady -> ProcessSinkReady(p, m, e, f)
      [] OTHER -> [Result(p, Nil, FALSE) EXCEPT !.panic = TRUE]


(***************************************************************************)
(* PolicyEngine.rx: pull messages from the port controller's queue q until *)
(* one has an ID other than last.  n is the number of Rx calls that        *)
(* succeed before the port controller returns an error other than          *)
(* ErrRxEmpty.                                                             *)
(***************************************************************************)
RECURSIVE rxFrom(_, _, _, _)
rxFrom(q, last, n, dropped) ==
    IF n = 0 THEN
        [err |-> "error", m |-> ZeroMessage, q |-> q, last |-> last, dropped |-> dropped]
    ELSE IF q = <<>> THEN
        [err |-> "ErrRxEmpty", m |-> ZeroMessage, q |-> q, last |-> last,
         dropped |-> dropped]
    ELSE IF ID(Head(q).Header) # last THEN
        [err |-> "nil", m |-> Head(q), q |-> Tail(q), last |-> ID(Head(q).Header),
         dropped |-> dropped]
    ELSE rxFrom(Tail(q), last, n - 1, Append(dropped, Head(q)))

\* rx without the comparison with lastRxID
rx_NoDedup(q, last, n) ==
    IF n = 0 THEN
        [err |-> "error", m |-> ZeroMessage, q |-> q, last |-> last, dropped |-> <<>>]
    ELSE IF q = <<>> THEN
        [err |-> "ErrRxEmpty", m |-> ZeroMessage, q |-> q, last |-> last,
         dropped |-> <<>>]
    ELSE
        [err |-> "nil", m |-> Head(q), q |-> Tail(q), last |-> ID(Head(q).Header),
         dropped |-> <<>>]

rx(q, last, n) == rxFrom(q, last, n, <<>>)

\* What is kept of a pulled message: its ID, and its kind and type.
RxNote(m) == [id |-> ID(m.Header), data |-> IsData(m.Header), type |-> Type(m.Header)]

NoRx == [dropped |-> <<>>, got |-> <<>>]

(***************************************************************************)
(* The loop of Run, one action per kind of iteration.                      *)
(***************************************************************************)
Running == run = "running" /\ ~ctxDone

\* A step that calls neither the port controller nor the callback.
NoOutput ==
    /\ txOut' = <<>>
    /\ cbOut' = <<>>
    /\ hrOut' = 0
    /\ rxOut' = NoRx
    /\ eOut' = EventNone
    /\ errOut' = "nil"

\* The end of an iteration without the Error label
Advance_NoOverride(r) ==
    IF r.panic THEN
        /\ run' = "panicked"
        /\ pe' = r.pe
        /\ UNCHANGED <<cur, entering>>
    ELSE
        /\ run' = run
        /\ pe' = r.pe
        /\ cur' = IF r.next # Nil THEN r.next ELSE cur
        /\ entering' = (r.next # Nil)

\* The end of an iteration: the Error label and the state transition.  No state
\* has an Exit function.
Advance(r) ==
    IF r.panic THEN
        /\ run' = "panicked"
        /\ pe' = r.pe
        /\ UNCHANGED <<cur, entering>>
    ELSE
        LET next == IF r.err THEN stateSinkHardReset ELSE r.next
        IN  /\ run' = run
            /\ pe' = r.pe
            /\ cur' = IF next # Nil THEN next ELSE cur
            /\ entering' = (next # Nil)

Emit(r) ==
    /\ txOut' = r.tx
    /\ cbOut' = r.cb
    /\ hrOut' = r.hr

\* An iteration that enters cur without clearing the timer first
RunEnterUpTo_KeepsTimer(limit, oks) ==
    /\ Running
    /\ entering
    /\ \E ok \in (IF CallsPortController(cur) THEN oks ELSE {TRUE}) :
        \E r \in {Enter(cur, pe, dpm, fn, ok)} :
            /\ txCount + Len(r.tx) <= limit
            /\ Advance(r)
            /\ Emit(r)
            /\ txCount' = IF cur = stateSinkStartup THEN 0 ELSE txCount + Len(r.tx)
            /\ rxQueue' \in (IF r.init THEN {<<>>}
                             ELSE IF cur = stateSinkStartup THEN {<<>>, rxQueue}
                             ELSE {rxQueue})
            /\ errOut' = IF r.err THEN EnterCall(cur) ELSE "nil"
    /\ rxOut' = NoRx
    /\ eOut' = EventNone
    /\ UNCHANGED <<ctxDone, events, dpm, queueSize, fn, bench>>

\* An iteration that enters cur; sessions are followed up to limit Tx calls, and
\* oks tells whether the calls of the port controller may succeed and fail.
\* Init empties the port controller's queue between steps that may fail, so a
\* failed Init has emptied it or not.
RunEnterUpTo(limit, oks) ==
    /\ Running
    /\ entering
    /\ \E ok \in (IF CallsPortController(cur) THEN oks ELSE {TRUE}) :
        \E r \in {Enter(cur, [pe EXCEPT !.timerExpiry = maxTimerExpiry], dpm, fn, ok)} :
            /\ txCount + Len(r.tx) <= limit
            /\ Advance(r)
            /\ Emit(r)
            /\ txCount' = IF cur = stateSinkStartup THEN 0 ELSE txCount + Len(r.tx)
            /\ rxQueue' \in (IF r.init THEN {<<>>}
                             ELSE IF cur = stateSinkStartup THEN {<<>>, rxQueue}
                             ELSE {rxQueue})
            /\ errOut' = IF r.err THEN EnterCall(cur) ELSE "nil"
    /\ rxOut' = NoRx
    /\ eOut' = EventNone
    /\ UNCHANGED <<ctxDone, events, dpm, queueSize, fn, bench>>

RunEnter == RunEnterUpTo(MaxTx, BOOLEAN)

\* Run returning the error of Alert to its caller
RunAlertError_Returns ==
    /\ Running
    /\ ~entering
    /\ run' = "returned"
    /\ NoOutput
    /\ UNCHANGED <<cur, entering, ctxDone, pe, events, dpm, queueSize, fn, rxQueue, txCount,
                   bench>>

\* Alert returns an error.
RunAlertError ==
    /\ Running
    /\ ~entering
    /\ Advance(Result(pe, Nil, TRUE))
    /\ Emit(Result(pe, Nil, TRUE))
    /\ rxOut' = NoRx
    /\ eOut' = EventNone
    /\ errOut' = "Alert"
    /\ UNCHANGED <<ctxDone, events, dpm, queueSize, fn, rxQueue, txCount, bench>>

\* The port controller reports new events only while the backlog is short.
AlertAllowed(a) == a = EventNone \/ Cardinality(events) < MaxPending

\* Alert returns the events a, having queued the messages ms (each one dropped
\* when the queue is full); a is added to the pending events and the first is
\* popped.
Polled(a, ms) ==
    LET room == queueSize - Len(rxQueue)
    IN  [pop |-> Pop(Add(events, a)),
         q |-> rxQueue \o SubSeq(ms, 1, IF Len(ms) <= room THEN Len(ms) ELSE room)]

\* No event is pending and the timer has not expired: sleep.
RunSleep(a, ms) ==
    /\ Running
    /\ ~entering
    /\ AlertAllowed(a)
    /\ \E pl \in {Polled(a, ms)} :
        /\ pl.pop.ev = EventNone
        /\ events' = pl.pop.rest
        /\ rxQueue' = pl.q
    /\ Advance(Result(pe, Nil, FALSE))
    /\ Emit(Result(pe, Nil, FALSE))
    /\ rxOut' = NoRx
    /\ eOut' = EventNone
    /\ errOut' = "nil"
    /\ UNCHANGED <<ctxDone, dpm, queueSize, fn, txCount, bench>>

\* No event is pending and the timer has expired.
RunTimeout(a, ms) ==
    /\ Running
    /\ ~entering
    /\ AlertAllowed(a)
    /\ pe.timerExpiry < maxTimerExpiry
    /\ \E pl \in {Polled(a, ms)} :
        /\ pl.pop.ev = EventNone
        /\ events' = pl.pop.rest
        /\ rxQueue' = pl.q
    /\ \E r \in {Process(cur, [pe EXCEPT !.timerExpiry = maxTimerExpiry], ZeroMessage,
                          EventTimerTimeout, fn)} :
        Advance(r) /\ Emit(r)
    /\ rxOut' = NoRx
    /\ eOut' = EventTimerTimeout
    /\ errOut' = "nil"
    /\ UNCHANGED <<ctxDone, dpm, queueSize, fn, txCount, bench>>

\* The current advertised by a non-PD source.
PowerCurrent(e) ==
    CASE e = EventPower0A5 -> 500
      [] e = EventPower1A5 -> 1500
      [] e = EventPower3A0 -> 3000

\* The switch without the case for EventDetached
Handle_DetachedToProcess(e) ==
    IF e \in {EventPower0A5, EventPower1A5, EventPower3A0} THEN
        Result([pe EXCEPT !.v5PDO = FixedSetMaxCurrent(@, PowerCurrent(e))], Nil, FALSE)
    ELSE IF e = EventResetReceived THEN
        Result(pe, stateSinkStartup, FALSE)
    ELSE IF e = EventSendReset THEN
        Result(pe, stateSinkHardReset, FALSE)
    ELSE Process(cur, pe, ZeroMessage, e, fn)

\* What the switch on the popped event e does, apart from EventRx.
Handle(e) ==
    IF e \in {EventPower0A5, EventPower1A5, EventPower3A0} THEN
        Result([pe EXCEPT !.v5PDO = FixedSetMaxCurrent(@, PowerCurrent(e))], Nil, FALSE)
    ELSE IF e \in {EventDetached, EventResetReceived} THEN
        Result(pe, stateSinkStartup, FALSE)
    ELSE IF e = EventSendReset THEN
        Result(pe, stateSinkHardReset, FALSE)
    ELSE Process(cur, pe, ZeroMessage, e, fn)

\* An event other than EventRx is popped.
RunEvent(a, ms) ==
    /\ Running
    /\ ~entering
    /\ AlertAllowed(a)
    /\ \E pl \in {Polled(a, ms)} :
        /\ pl.pop.ev \notin {EventNone, EventRx}
        /\ events' = pl.pop.rest
        /\ rxQueue' = pl.q
        /\ eOut' = pl.pop.ev
        /\ \E r \in {Handle(pl.pop.ev)} : Advance(r) /\ Emit(r)
    /\ rxOut' = NoRx
    /\ errOut' = "nil"
    /\ UNCHANGED <<ctxDone, dpm, queueSize, fn, txCount, bench>>

\* The EventRx case without the re-adding of EventRx
RunRxOn_NoReAdd(a, ms, faulty) ==
    /\ Running
    /\ ~entering
    /\ AlertAllowed(a)
    /\ \E pl \in {Polled(a, ms)} :
        /\ pl.pop.ev = EventRx
        /\ \E n \in (IF faulty THEN 0..(Len(pl.q) + 1) ELSE {Len(pl.q) + 1}) :
            \E x \in {rx(pl.q, pe.lastRxID, n)} :
            \E r \in {IF x.err = "nil"
                           THEN Process(cur, [pe EXCEPT !.lastRxID = x.last], x.m, EventRx, fn)
                           ELSE Result([pe EXCEPT !.lastRxID = x.last], Nil,
                                       x.err # "ErrRxEmpty")} :
                /\ rxQueue' = x.q
                /\ events' = pl.pop.rest
                /\ Advance(r)
                /\ Emit(r)
                /\ rxOut' = [dropped |-> [i \in 1..Len(x.dropped) |-> RxNote(x.dropped[i])],
                             got |-> IF x.err = "nil" THEN <<RxNote(x.m)>> ELSE <<>>]
                /\ errOut' = IF x.err = "error" THEN "Rx" ELSE x.err
    /\ eOut' = EventRx
    /\ UNCHANGED <<ctxDone, dpm, queueSize, fn, txCount, bench>>

\* EventRx is popped: rx() and, when it returns a message, Process and the
\* re-adding of EventRx.  faulty tells whether Rx may return an error other
\* than ErrRxEmpty.
RunRxOn(a, ms, faulty) ==
    /\ Running
    /\ ~entering
    /\ AlertAllowed(a)
    /\ \E pl \in {Polled(a, ms)} :
        /\ pl.pop.ev = EventRx
        /\ \E n \in (IF faulty THEN 0..(Len(pl.q) + 1) ELSE {Len(pl.q) + 1}) :
            \E x \in {rx(pl.q, pe.lastRxID, n)} :
            \E r \in {IF x.err = "nil"
                           THEN Process(cur, [pe EXCEPT !.lastRxID = x.last], x.m, EventRx, fn)
                           ELSE Result([pe EXCEPT !.lastRxID = x.last], Nil,
                                       x.err # "ErrRxEmpty")} :
                /\ rxQueue' = x.q
                /\ events' = IF x.err = "nil" THEN Add(pl.pop.rest, EventRx)
                             ELSE pl.pop.rest
                /\ Advance(r)
                /\ Emit(r)
                /\ rxOut' = [dropped |-> [i \in 1..Len(x.dropped) |-> RxNote(x.dropped[i])],
                             got |-> IF x.err = "nil" THEN <<RxNote(x.m)>> ELSE <<>>]
                /\ errOut' = IF x.err = "error" THEN "Rx" ELSE x.err
    /\ eOut' = EventRx
    /\ UNCHANGED <<ctxDone, dpm, queueSize, fn, txCount, bench>>

RunRx(a, ms) == RunRxOn(a, ms, TRUE)

\* The context is done: Run returns.
RunReturn ==
    /\ run = "running"
    /\ ctxDone
    /\ run' = "returned"
    /\ NoOutput
    /\ UNCHANGED <<cur, entering, ctxDone, pe, events, dpm, queueSize, fn, rxQueue, txCount, bench>>

(***************************************************************************)
(* The calls made from other goroutines.                                   *)
(***************************************************************************)
Renegotiate ==
    /\ events' = Add(events, EventSendReset)
    /\ NoOutput
    /\ UNCHANGED <<cur, entering, run, ctxDone, pe, dpm, queueSize, fn, rxQueue, txCount, bench>>

SetDPM(d) ==
    /\ dpm' = d
    /\ NoOutput
    /\ UNCHANGED <<cur, entering, run, ctxDone, pe, events, fn, queueSize, rxQueue, txCount, bench>>

NotifyOnPowerChange(f) ==
    /\ fn' = f
    /\ NoOutput
    /\ UNCHANGED <<cur, entering, run, ctxDone, pe, events, dpm, queueSize, rxQueue, txCount, bench>>

\* The caller of Run cancels the context.
Cancel ==
    /\ ~ctxDone
    /\ ctxDone' = TRUE
    /\ NoOutput
    /\ UNCHANGED <<cur, entering, run, pe, events, dpm, queueSize, fn, rxQueue, txCount, bench>>


(***************************************************************************)
(* The environment: the source's messages, the port controller's events    *)
(* and the application's policies.                                         *)
(***************************************************************************)
Fixed5V3A == FixedSetMaxCurrent(FixedSetVoltage(NewFixedSupplyPDO, 5000), 3000)
Fixed9V3A == FixedSetMaxCurrent(FixedSetVoltage(NewFixedSupplyPDO, 9000), 3000)
PPS3V3To11V3A ==
    PPSSetMaxCurrent(PPSSetMaxVoltage(PPSSetMinVoltage(NewPPSPDO, 3300), 11000), 3000)

\* A message as the source sends it.
SourceMessage(type, rev, id, pdos) ==
    [Header |-> SetID(SetRevision(SetDataRole(SetPowerRole(
                    SetDataObjectCount(SetType({}, type), Len(pdos)),
                    PowerRoleSource), DataRoleDFP), rev), id),
     Data |-> [i \in 1..MaxDataObjects |-> IF i <= Len(pdos) THEN pdos[i] ELSE {}]]

MsgIDs == 0..MaxMsgID

SourceCapFixed(id) == SourceMessage(TypeSourceCap, Revision20, id, <<Fixed5V3A, Fixed9V3A>>)
SourceCapPPS(id) == SourceMessage(TypeSourceCap, Revision30, id, <<Fixed5V3A, PPS3V3To11V3A>>)
Control(type, id) == SourceMessage(type, Revision30, id, <<>>)

ControlMsgs ==
    {Control(t, id) : t \in {TypeAccept, TypeReject, TypeWait, TypePSReady, TypePing},
                      id \in MsgIDs}
SourceMsgs == {SourceCapFixed(id) : id \in MsgIDs} \cup ControlMsgs

\* What Alert may return together with the messages it queued, for a port
\* controller that reports the events evs: at most MaxAlertEvents events at a
\* time, and messages (drawn from msgs) only with EventRx.
AlertsOf(evs, msgs) ==
    LET sets == {a \in SUBSET evs : Cardinality(a) <= MaxAlertEvents}
    IN  {<<a, <<>>>> : a \in {x \in sets : ~Has(x, EventRx)}}
        \cup {<<a, <<m>>>> : a \in {x \in sets : Has(x, EventRx)}, m \in msgs}

AlertEvents == EventResetReceived \cup EventPower1A5 \cup EventAttached
               \cup EventDetached \cup EventRx
Alerts == AlertsOf(AlertEvents, SourceMsgs)

\* The DPM slot: nil, or a constant voltage policy.
CVPolicy(min, max, current, lower, pps) ==
    [MinVoltage |-> min, MaxVoltage |-> max, Current |-> current,
     PreferLowerVoltage |-> lower, PreferPPS |-> pps]
NoDPM == [nil |-> TRUE, policy |-> CVPolicy(0, 0, 0, FALSE, FALSE)]
CV9V == [nil |-> FALSE, policy |-> CVPolicy(8000, 10000, 3000, FALSE, FALSE)]
CV5V == [nil |-> FALSE, policy |-> CVPolicy(4500, 5500, 1000, FALSE, FALSE)]
CVPPS == [nil |-> FALSE, policy |-> CVPolicy(8000, 10000, 2000, FALSE, TRUE)]
DPMs == {NoDPM, CV9V, CV5V}

\* The applications followed: each policy with a callback set, and one without
\* a callback.
Configs == {<<d, TRUE>> : d \in DPMs} \cup {<<CV9V, FALSE>>}

(***************************************************************************)
(* The specification: Run started on a new engine.                         *)
(***************************************************************************)
\* No codec word or event set is followed next to the engine.
NoBench == [kind |-> "none"]

\* Run starts on a new engine on which SetDPM(d) and NotifyOnPowerChange were
\* called as configs says.
InitEngine(configs, size) ==
    /\ cur = stateSinkStartup
    /\ entering = TRUE
    /\ run = "running"
    /\ ctxDone = FALSE
    /\ pe = New
    /\ events = EventNone
    /\ \E c \in configs : dpm = c[1] /\ fn = c[2]
    /\ rxQueue = <<>>
    /\ queueSize = size
    /\ txCount = 0
    /\ txOut = <<>>
    /\ cbOut = <<>>
    /\ hrOut = 0
    /\ rxOut = NoRx
    /\ eOut = EventNone
    /\ errOut = "nil"

InitOf(configs, size) == InitEngine(configs, size) /\ bench = NoBench

Init == InitOf(Configs, MaxQueue)

Next ==
    \/ RunEnter
    \/ RunAlertError
    \/ \E x \in Alerts : RunSleep(x[1], x[2])
    \/ \E x \in Alerts : RunTimeout(x[1], x[2])
    \/ \E x \in Alerts : RunEvent(x[1], x[2])
    \/ \E x \in Alerts : RunRx(x[1], x[2])
    \/ Renegotiate

Spec == Init /\ [][Next]_vars

(***************************************************************************)
(* Long sessions: a source that keeps answering Wait, so that many         *)
(* requests are sent between two entries into SinkStartup.                 *)
(***************************************************************************)
LongMsgs ==
    {SourceCapFixed(id) : id \in MsgIDs}
    \cup {Control(t, id) : t \in {TypeAccept, TypeWait, TypePSReady}, id \in MsgIDs}
LongAlerts == AlertsOf(EventResetReceived \cup EventAttached \cup EventRx, LongMsgs)

InitLong == InitOf({<<CV9V, TRUE>>}, MaxQueue)

NextLong ==
    \/ RunEnterUpTo(MaxTxLong, BOOLEAN)
    \/ \E x \in LongAlerts : RunSleep(x[1], x[2])
    \/ \E x \in LongAlerts : RunTimeout(x[1], x[2])
    \/ \E x \in LongAlerts : RunEvent(x[1], x[2])
    \/ \E x \in LongAlerts : RunRx(x[1], x[2])

SpecLong == InitLong /\ [][NextLong]_vars

(***************************************************************************)
(* Bursts: a source whose messages arrive several to one Alert call, at a  *)
(* port controller whose queue takes a whole burst.                        *)
(***************************************************************************)
BurstMsgs ==
    {SourceCapFixed(id) : id \in MsgIDs}
    \cup {Control(t, id) : t \in {TypeAccept, TypePSReady}, id \in MsgIDs}
BurstAlerts ==
    {<<a, <<>>>> : a \in {EventNone, EventAttached, EventResetReceived}}
    \cup {<<EventRx, ms>> : ms \in UNION {[1..n -> BurstMsgs] : n \in 1..MaxBurst}}

InitBurst == InitOf({<<CV9V, TRUE>>}, MaxBurst)

NextBurst ==
    \/ RunEnter
    \/ \E x \in BurstAlerts : RunSleep(x[1], x[2])
    \/ \E x \in BurstAlerts : RunTimeout(x[1], x[2])
    \/ \E x \in BurstAlerts : RunEvent(x[1], x[2])
    \/ \E x \in BurstAlerts : RunRx(x[1], x[2])

SpecBurst == InitBurst /\ [][NextBurst]_vars

(***************************************************************************)
(* The happy path: a port controller that never fails, an attached source  *)
(* that follows the protocol (capabilities for a sink waiting for them, an *)
(* Accept for a request, PSReady for a sink in transition, under message   *)
(* IDs and a revision of its choice) and answers before the timers expire, *)
(* and an Rp advertisement that may change at any time.                    *)
(***************************************************************************)
HappySourceCap(rev, id) ==
    SourceMessage(TypeSourceCap, rev, id, <<Fixed5V3A, Fixed9V3A>>)

HappyAlerts ==
    {<<a, <<>>>> : a \in {EventNone, EventPower0A5, EventPower1A5, EventPower3A0}}
    \cup CASE cur = stateSinkDiscovery -> {<<EventAttached, <<>>>>}
            [] cur = stateSinkWaitForCapabilities ->
                   {<<EventRx, <<HappySourceCap(rev, id)>>>> :
                       rev \in {Revision10, Revision20, Revision30}, id \in MsgIDs}
            [] cur = stateSinkSelectCapabilities ->
                   {<<EventRx, <<Control(TypeAccept, id)>>>> : id \in MsgIDs}
            [] cur = stateSinkTransitionSink ->
                   {<<EventRx, <<Control(TypePSReady, id)>>>> : id \in MsgIDs}
            [] OTHER -> {}

InitHappy == InitOf({<<CV9V, TRUE>>}, MaxQueue)

NextHappy ==
    \/ RunEnterUpTo(MaxTx, {TRUE})
    \/ \E x \in HappyAlerts : RunSleep(x[1], x[2])
    \/ \E x \in HappyAlerts : RunEvent(x[1], x[2])
    \/ \E x \in HappyAlerts : RunRxOn(x[1], x[2], FALSE)

SpecHappy == InitHappy /\ [][NextHappy]_vars

(***************************************************************************)
(* Waiting sources: a source with fixed and programmable supplies that may *)
(* answer a request with Wait, and a policy that prefers the programmable  *)
(* supply.                                                                 *)
(***************************************************************************)
WaitMsgs ==
    {SourceCapFixed(id) : id \in MsgIDs} \cup {SourceCapPPS(id) : id \in MsgIDs}
    \cup {Control(t, id) : t \in {TypeAccept, TypeWait, TypePSReady}, id \in MsgIDs}
WaitAlerts == AlertsOf(EventAttached \cup EventRx, WaitMsgs)

InitWait == InitOf({<<CVPPS, TRUE>>}, MaxQueue)

NextWait ==
    \/ RunEnter
    \/ \E x \in WaitAlerts : RunSleep(x[1], x[2])
    \/ \E x \in WaitAlerts : RunTimeout(x[1], x[2])
    \/ \E x \in WaitAlerts : RunEvent(x[1], x[2])
    \/ \E x \in WaitAlerts : RunRx(x[1], x[2])

SpecWait == InitWait /\ [][NextWait]_vars

(***************************************************************************)
(* A charger without PD under a scheduler that keeps the loop of Run       *)
(* going, and a port controller that does not report ResetReceived at      *)
(* every Alert call for ever: time and again an iteration completes whose  *)
(* Alert call reported something else.                                     *)
(***************************************************************************)
ChargerAlerts ==
    AlertsOf(EventResetReceived \cup EventPower1A5 \cup EventAttached
             \cup EventDetached, {})

InitCharger == InitOf({<<CV5V, TRUE>>, <<CV9V, TRUE>>, <<NoDPM, TRUE>>}, MaxQueue)

NextCharger ==
    \/ RunEnter
    \/ RunAlertError
    \/ \E x \in ChargerAlerts : RunSleep(x[1], x[2])
    \/ \E x \in ChargerAlerts : RunTimeout(x[1], x[2])
    \/ \E x \in ChargerAlerts : RunEvent(x[1], x[2])
    \/ Renegotiate

LoopStep ==
    \/ RunEnter
    \/ RunAlertError
    \/ \E x \in ChargerAlerts : RunSleep(x[1], x[2])
    \/ \E x \in ChargerAlerts : RunTimeout(x[1], x[2])
    \/ \E x \in ChargerAlerts : RunEvent(x[1], x[2])

CleanPoll ==
    \E x \in ChargerAlerts :
        /\ ~Has(x[1], EventResetReceived)
        /\ RunSleep(x[1], x[2]) \/ RunTimeout(x[1], x[2]) \/ RunEvent(x[1], x[2])

SpecCharger ==
    InitCharger /\ [][NextCharger]_vars /\ WF_vars(LoopStep) /\ SF_vars(CleanPoll)

(***************************************************************************)
(* Rejecting sources, under a scheduler that keeps the loop of Run going:  *)
(* an iteration that enters a state is always taken in the end, and with   *)
(* it the calls of the port controller that it makes, which may fail any   *)
(* number of times but not for ever.                                       *)
(***************************************************************************)
RejectMsgs ==
    {SourceCapFixed(id) : id \in MsgIDs}
    \cup {Control(t, id) : t \in {TypeAccept, TypeReject, TypePSReady}, id \in MsgIDs}
RejectAlerts == AlertsOf(EventAttached \cup EventRx, RejectMsgs)

InitReject == InitOf({<<CV9V, TRUE>>, <<CV9V, FALSE>>}, MaxQueue)

NextReject ==
    \/ RunEnter
    \/ \E x \in RejectAlerts : RunSleep(x[1], x[2])
    \/ \E x \in RejectAlerts : RunTimeout(x[1], x[2])
    \/ \E x \in RejectAlerts : RunEvent(x[1], x[2])
    \/ \E x \in RejectAlerts : RunRx(x[1], x[2])

SpecReject ==
    InitReject /\ [][NextReject]_vars /\ WF_vars(RunEnterUpTo(MaxTx, {TRUE}))

(***************************************************************************)
(* Cancellation: the caller of Run cancels the context at any time, under  *)
(* a scheduler that lets the goroutine of Run reach the top of its loop.   *)
(***************************************************************************)
CancelMsgs ==
    {SourceCapFixed(id) : id \in MsgIDs}
    \cup {Control(t, id) : t \in {TypeAccept, TypePSReady}, id \in MsgIDs}
CancelAlerts ==
    AlertsOf(EventPower1A5 \cup EventAttached \cup EventDetached \cup EventRx, CancelMsgs)

InitCancel == InitOf({<<CV9V, TRUE>>, <<CV5V, TRUE>>}, MaxQueue)

NextCancel ==
    \/ RunEnter
    \/ RunAlertError
    \/ \E x \in CancelAlerts : RunSleep(x[1], x[2])
    \/ \E x \in CancelAlerts : RunTimeout(x[1], x[2])
    \/ \E x \in CancelAlerts : RunEvent(x[1], x[2])
    \/ \E x \in CancelAlerts : RunRx(x[1], x[2])
    \/ Cancel
    \/ RunReturn

SpecCancel == InitCancel /\ [][NextCancel]_vars /\ WF_vars(RunReturn)

(***************************************************************************)
(* Declining policies: no DPM, or a policy for 9 V, with a source that     *)
(* offers 5 V alone or 5 V and 9 V, attached or not behind a charger's Rp. *)
(***************************************************************************)
SourceCap5V(id) == SourceMessage(TypeSourceCap, Revision20, id, <<Fixed5V3A>>)

DeclineMsgs ==
    {SourceCap5V(id) : id \in MsgIDs} \cup {SourceCapFixed(id) : id \in MsgIDs}
    \cup {Control(t, id) : t \in {TypeAccept, TypePSReady}, id \in MsgIDs}
DeclineAlerts == AlertsOf(EventPower1A5 \cup EventAttached \cup EventRx, DeclineMsgs)

InitDecline == InitOf({<<NoDPM, TRUE>>, <<CV9V, TRUE>>}, MaxQueue)

NextDecline ==
    \/ RunEnter
    \/ \E x \in DeclineAlerts : RunSleep(x[1], x[2])
    \/ \E x \in DeclineAlerts : RunTimeout(x[1], x[2])
    \/ \E x \in DeclineAlerts : RunEvent(x[1], x[2])
    \/ \E x \in DeclineAlerts : RunRx(x[1], x[2])

SpecDecline == InitDecline /\ [][NextDecline]_vars

(***************************************************************************)
(* Revisions: a source that states any revision in its capabilities, the   *)
(* reserved value 3 included, and may answer a request with Wait, so that  *)
(* several requests are sent in one session.                               *)
(***************************************************************************)
RevisionMsgs ==
    {SourceMessage(TypeSourceCap, rev, id, <<Fixed5V3A, Fixed9V3A>>) :
         rev \in 0..3, id \in MsgIDs}
    \cup {Control(t, id) : t \in {TypeAccept, TypeWait, TypePSReady}, id \in MsgIDs}
RevisionAlerts == AlertsOf(EventAttached \cup EventRx, RevisionMsgs)

InitRevision == InitOf({<<CV9V, TRUE>>}, MaxQueue)

NextRevision ==
    \/ RunEnter
    \/ \E x \in RevisionAlerts : RunSleep(x[1], x[2])
    \/ \E x \in RevisionAlerts : RunTimeout(x[1], x[2])
    \/ \E x \in RevisionAlerts : RunEvent(x[1], x[2])
    \/ \E x \in RevisionAlerts : RunRx(x[1], x[2])

SpecRevision == InitRevision /\ [][NextRevision]_vars

(***************************************************************************)
(* Rp advertisements: a charger without PD whose advertised current        *)
(* changes between 0.5 A, 1.5 A and 3 A, and that is detached and attached *)
(* again, with an application that may force a hard reset and a port       *)
(* controller that may fail.                                               *)
(***************************************************************************)
RpAlerts ==
    AlertsOf(EventResetReceived \cup EventPower0A5 \cup EventPower1A5 \cup EventPower3A0
             \cup EventAttached \cup EventDetached, {})

InitRp == InitOf({<<CV5V, TRUE>>, <<NoDPM, TRUE>>}, MaxQueue)

NextRp ==
    \/ RunEnter
    \/ RunAlertError
    \/ \E x \in RpAlerts : RunSleep(x[1], x[2])
    \/ \E x \in RpAlerts : RunTimeout(x[1], x[2])
    \/ \E x \in RpAlerts : RunEvent(x[1], x[2])
    \/ Renegotiate

SpecRp == InitRp /\ [][NextRp]_vars

(***************************************************************************)
(* A port controller that falls silent: a source that may answer as the    *)
(* protocol says or not at all, a port controller that may fail, and a     *)
(* scheduler that keeps the loop of Run going while time passes: an        *)
(* iteration in which Alert reports nothing, no message arrives and no     *)
(* call fails is always taken in the end, and so is the timeout of a timer *)
(* that is running.                                                        *)
(***************************************************************************)
QuietAlerts ==
    {<<a, <<>>>> : a \in {EventNone, EventPower1A5, EventDetached}}
    \cup CASE cur = stateSinkDiscovery -> {<<EventAttached, <<>>>>}
            [] cur = stateSinkWaitForCapabilities ->
                   {<<EventRx, <<SourceCapFixed(id)>>>> : id \in MsgIDs}
            [] cur = stateSinkSelectCapabilities ->
                   {<<EventRx, <<Control(TypeAccept, id)>>>> : id \in MsgIDs}
            [] cur = stateSinkTransitionSink ->
                   {<<EventRx, <<Control(TypePSReady, id)>>>> : id \in MsgIDs}
            [] OTHER -> {}

InitQuiet == InitOf({<<CV5V, TRUE>>, <<CV9V, TRUE>>}, MaxQueue)

NextQuiet ==
    \/ RunEnter
    \/ RunAlertError
    \/ \E x \in QuietAlerts : RunSleep(x[1], x[2])
    \/ \E x \in QuietAlerts : RunTimeout(x[1], x[2])
    \/ \E x \in QuietAlerts : RunEvent(x[1], x[2])
    \/ \E x \in QuietAlerts : RunRx(x[1], x[2])

\* An iteration during which the port controller is silent.
QuietStep ==
    \/ RunEnterUpTo(MaxTx, {TRUE})
    \/ RunSleep(EventNone, <<>>)
    \/ RunTimeout(EventNone, <<>>)
    \/ RunEvent(EventNone, <<>>)
    \/ RunRxOn(EventNone, <<>>, FALSE)

SpecQuiet ==
    /\ InitQuiet
    /\ [][NextQuiet]_vars
    /\ WF_vars(RunEnterUpTo(MaxTx, {TRUE}))
    /\ WF_vars(RunTimeout(EventNone, <<>>))
    /\ WF_vars(RunEvent(EventNone, <<>>))
    /\ WF_vars(RunRxOn(EventNone, <<>>, FALSE))

(***************************************************************************)
(* The event set on its own: an Event variable, EventNone at first, under  *)
(* any sequence of Add, Has and Pop calls.  The engine is not started.     *)
(* bench holds the set (w), the latest call (op), its argument (arg) and   *)
(* what it returned (ret for Pop, has for Has).                            *)
(***************************************************************************)
EngineIdle ==
    UNCHANGED <<cur, entering, run, ctxDone, pe, events, dpm, fn, rxQueue, queueSize,
                txCount, txOut, cbOut, hrOut, rxOut, eOut, errOut>>

AllEvents ==
    EventResetReceived \cup EventSendReset \cup EventPower0A5 \cup EventPower1A5
    \cup EventPower3A0 \cup EventAttached \cup EventDetached \cup EventRx
    \cup EventTimerTimeout

EventArgs == {v \in SUBSET AllEvents : Cardinality(v) <= MaxEventArg}

EventBench(w, op, arg, ret, has) ==
    [kind |-> "Event", w |-> w, op |-> op, arg |-> arg, ret |-> ret, has |-> has]

EventPop ==
    /\ bench.kind = "Event"
    /\ \E r \in {Pop(bench.w)} :
           bench' = EventBench(r.rest, "Pop", EventNone, r.ev, FALSE)
    /\ EngineIdle

EventAdd(v) ==
    /\ bench.kind = "Event"
    /\ bench' = EventBench(Add(bench.w, v), "Add", v, EventNone, FALSE)
    /\ EngineIdle

EventHas(v) ==
    /\ bench.kind = "Event"
    /\ bench' = EventBench(bench.w, "Has", v, EventNone, Has(bench.w, v))
    /\ EngineIdle

InitEvents ==
    /\ InitEngine({<<NoDPM, FALSE>>}, MaxQueue)
    /\ bench = EventBench(EventNone, "new", EventNone, EventNone, FALSE)

NextEvents ==
    \/ EventPop
    \/ \E v \in EventArgs : EventAdd(v)
    \/ \E v \in EventArgs : EventHas(v)

SpecEvents == InitEvents /\ [][NextEvents]_vars

(***************************************************************************)
(* The codec on its own: a header, a FixedSupplyPDO, a PPSPDO or a         *)
(* RequestDO (used as a fixed or as a PPS request) under sequences of      *)
(* setter calls.  bench holds the word (w), the latest call (op, field,    *)
(* arg), the number of calls made, and for the data objects the argument   *)
(* last given to each setter called so far (last).                         *)
(***************************************************************************)
\* Each field: its lowest bit, its width, its unit (the getter's shift, mask
\* and factor) and the largest value of the setter's parameter type.
Layout ==
    [Type |-> <<0, 5, 1, 255>>,
     DataRole |-> <<5, 1, 1, 255>>,
     Revision |-> <<6, 2, 1, 255>>,
     PowerRole |-> <<8, 1, 1, 255>>,
     ID |-> <<9, 3, 1, 255>>,
     DataObjectCount |-> <<12, 3, 1, 255>>,
     Extended |-> <<15, 1, 1, 1>>,
     Voltage |-> <<10, 10, 50, 65535>>,
     MaxCurrent |-> <<0, 10, 10, 65535>>,
     MinVoltage |-> <<8, 8, 100, 65535>>,
     MaxVoltage |-> <<17, 8, 100, 65535>>,
     PPSMaxCurrent |-> <<0, 7, 50, 65535>>,
     SelectedObjectPosition |-> <<28, 4, 1, 255>>,
     CapabilityMismatch |-> <<26, 1, 1, 1>>,
     FixedOperatingCurrent |-> <<10, 10, 10, 65535>>,
     FixedMaxOperatingCurrent |-> <<0, 10, 10, 65535>>,
     PPSOutputVoltage |-> <<9, 12, 20, 65535>>,
     PPSOutputCurrent |-> <<0, 7, 50, 65535>>]

FieldLo(f) == Layout[f][1]
FieldWidth(f) == Layout[f][2]
FieldUnit(f) == Layout[f][3]
FieldMaxArg(f) == Layout[f][4]
FieldBits(f) == Mask(FieldLo(f), FieldWidth(f))

\* The fields of each kind of word.
FieldsOf(kind) ==
    CASE kind = "Header" ->
             {"Type", "DataRole", "Revision", "PowerRole", "ID", "DataObjectCount",
              "Extended"}
      [] kind = "FixedSupplyPDO" -> {"Voltage", "MaxCurrent"}
      [] kind = "PPSPDO" -> {"MinVoltage", "MaxVoltage", "PPSMaxCurrent"}
      [] kind = "FixedRequestDO" ->
             {"SelectedObjectPosition", "CapabilityMismatch", "FixedOperatingCurrent",
              "FixedMaxOperatingCurrent"}
      [] kind = "PPSRequestDO" ->
             {"SelectedObjectPosition", "CapabilityMismatch", "PPSOutputVoltage",
              "PPSOutputCurrent"}

CodecKinds == {"Header", "FixedSupplyPDO", "PPSPDO", "FixedRequestDO", "PPSRequestDO"}

\* The setter of field f called on w with x (a bool is 0 or 1).
FieldSet(f, w, x) ==
    CASE f = "Type" -> SetType(w, x)
      [] f = "DataRole" -> SetDataRole(w, x)
      [] f = "Revision" -> SetRevision(w, x)
      [] f = "PowerRole" -> SetPowerRole(w, x)
      [] f = "ID" -> SetID(w, x)
      [] f = "DataObjectCount" -> SetDataObjectCount(w, x)
      [] f = "Extended" -> SetExtended(w, x = 1)
      [] f = "Voltage" -> FixedSetVoltage(w, x)
      [] f = "MaxCurrent" -> FixedSetMaxCurrent(w, x)
      [] f = "MinVoltage" -> PPSSetMinVoltage(w, x)
      [] f = "MaxVoltage" -> PPSSetMaxVoltage(w, x)
      [] f = "PPSMaxCurrent" -> PPSSetMaxCurrent(w, x)
      [] f = "SelectedObjectPosition" -> SetSelectedObjectPosition(w, x)
      [] f = "CapabilityMismatch" -> SetCapabilityMismatch(w, x = 1)
      [] f = "FixedOperatingCurrent" -> SetFixedOperatingCurrent(w, x)
      [] f = "FixedMaxOperatingCurrent" -> SetFixedMaxOperatingCurrent(w, x)
      [] f = "PPSOutputVoltage" -> SetPPSOutputVoltage(w, x)
      [] f = "PPSOutputCurrent" -> SetPPSOutputCurrent(w, x)

\* The getter of field f called on w.
FieldGet(f, w) ==
    CASE f = "Type" -> Type(w)
      [] f = "DataRole" -> DataRole(w)
      [] f = "Revision" -> Revision(w)
      [] f = "PowerRole" -> PowerRole(w)
      [] f = "ID" -> ID(w)
      [] f = "DataObjectCount" -> DataObjectCount(w)
      [] f = "Extended" -> IF IsExtended(w) THEN 1 ELSE 0
      [] f = "Voltage" -> FixedVoltage(w)
      [] f = "MaxCurrent" -> FixedMaxCurrent(w)
      [] f = "MinVoltage" -> PPSMinVoltage(w)
      [] f = "MaxVoltage" -> PPSMaxVoltage(w)
      [] f = "PPSMaxCurrent" -> PPSMaxCurrent(w)
      [] f = "SelectedObjectPosition" -> SelectedObjectPosition(w)
      [] f = "CapabilityMismatch" -> IF CapabilityMismatch(w) THEN 1 ELSE 0
      [] f = "FixedOperatingCurrent" -> FixedOperatingCurrent(w)
      [] f = "FixedMaxOperatingCurrent" -> FixedMaxOperatingCurrent(w)
      [] f = "PPSOutputVoltage" -> PPSOutputVoltage(w)
      [] f = "PPSOutputCurrent" -> PPSOutputCurrent(w)

\* The arguments tried on the setter of f: on and off the grid, the ends of
\* the field's range, the first values past it and the end of the parameter's
\* type.
FieldArgs(f) ==
    LET u == FieldUnit(f)
        n == 2^FieldWidth(f)
        top == FieldMaxArg(f)
    IN  {x \in {0, u, u + 1, (n - 1) * u, (n - 1) * u + u - 1, n * u, (n + 1) * u,
                (top \div u) * u, top} : x <= top}

\* The words the calls start from: the word as constructed and all ones, and
\* for a header also every other bit.
CodecSeeds(kind) ==
    CASE kind = "Header" -> {{}, U16, {i \in U16 : i % 2 = 0}, {i \in U16 : i % 2 = 1}}
      [] kind = "FixedSupplyPDO" -> {NewFixedSupplyPDO, U32}
      [] kind = "PPSPDO" -> {NewPPSPDO, U32}
      [] OTHER -> {EmptyRequestDO, U32}

NoLast == [f \in {} |-> 0]

CodecBench(kind, w, op, field, arg, calls, last) ==
    [kind |-> kind, w |-> w, op |-> op, field |-> field, arg |-> arg, calls |-> calls,
     last |-> last]

\* last after the setter of f was given x; it is not kept for headers.
Given(f, x) ==
    IF bench.kind = "Header" THEN NoLast
    ELSE [g \in DOMAIN bench.last \cup {f} |-> IF g = f THEN x ELSE bench.last[g]]

\* A setter is called with x.
CodecSet(f, x) ==
    /\ bench.kind \in CodecKinds
    /\ bench.calls < MaxCalls
    /\ f \in FieldsOf(bench.kind)
    /\ bench' = CodecBench(bench.kind, FieldSet(f, bench.w, x), "Set", f, x,
                           bench.calls + 1, Given(f, x))
    /\ EngineIdle

\* A setter is called with what the getter has just returned.
CodecWriteBack(f) ==
    /\ bench.kind \in CodecKinds
    /\ bench.calls < MaxCalls
    /\ f \in FieldsOf(bench.kind)
    /\ \E x \in {FieldGet(f, bench.w)} :
           bench' = CodecBench(bench.kind, FieldSet(f, bench.w, x), "WriteBack", f, x,
                               bench.calls + 1, Given(f, x))
    /\ EngineIdle

AllFields == UNION {FieldsOf(k) : k \in CodecKinds}

InitCodec ==
    /\ InitEngine({<<NoDPM, FALSE>>}, MaxQueue)
    /\ \E k \in CodecKinds : \E w \in CodecSeeds(k) :
           bench = CodecBench(k, w, "new", "none", 0, 0, NoLast)

NextCodec ==
    \/ \E f \in AllFields : \E x \in FieldArgs(f) : CodecSet(f, x)
    \/ \E f \in AllFields : CodecWriteBack(f)

SpecCodec == InitCodec /\ [][NextCodec]_vars

(***************************************************************************)
(* PDO.Type on its own: generic PDOs with every value of bits 28-31 over   *)
(* several fillings of the bits below, and the PDOs made by                *)
(* NewFixedSupplyPDO and NewPPSPDO under their setters.  The bench is that *)
(* of the codec, with what Type returned (ret) after a Type call.          *)
(***************************************************************************)
\* The fillings of bits 0..27.
LowFills == {{}, 0..27, {i \in 0..27 : i % 2 = 0}}
PDOSeeds == {Shl(BitsOf(t), 28, U32) \cup low : t \in 0..15, low \in LowFills}

\* PDO.Type is called on the word.
PDOTypeCall ==
    /\ bench.kind \in {"PDO", "FixedSupplyPDO", "PPSPDO"}
    /\ bench' = [kind |-> bench.kind, w |-> bench.w, op |-> "Type", field |-> "none",
                 arg |-> 0, calls |-> bench.calls, last |-> bench.last,
                 ret |-> PDOType(bench.w)]
    /\ EngineIdle

InitPDO ==
    /\ InitEngine({<<NoDPM, FALSE>>}, MaxQueue)
    /\ \/ \E w \in PDOSeeds : bench = CodecBench("PDO", w, "new", "none", 0, 0, NoLast)
       \/ bench = CodecBench("FixedSupplyPDO", NewFixedSupplyPDO, "new", "none", 0, 0, NoLast)
       \/ bench = CodecBench("PPSPDO", NewPPSPDO, "new", "none", 0, 0, NoLast)

NextPDO ==
    \/ \E f \in FieldsOf("FixedSupplyPDO") \cup FieldsOf("PPSPDO") :
           \E x \in FieldArgs(f) : CodecSet(f, x)
    \/ PDOTypeCall

SpecPDO == InitPDO /\ [][NextPDO]_vars

(***************************************************************************)
(* The policies of tcdpm on their own: a CVPolicy, CCPolicy or CPPolicy    *)
(* and a list of PDOs, on which EvaluateCapabilities is called.  bench     *)
(* holds the policy (policy, c), the list (pdos), the latest call (op),    *)
(* the RDO it returned (rdo) and whether it panicked.                      *)
(***************************************************************************)
FixedPDO(v, c) == FixedSetMaxCurrent(FixedSetVoltage(NewFixedSupplyPDO, v), c)
PPSOf(min, max, c) ==
    PPSSetMaxCurrent(PPSSetMaxVoltage(PPSSetMinVoltage(NewPPSPDO, min), max), c)

\* The PDOs a list is drawn from: fixed supplies (two of them at 9 V), PPS
\* supplies and a battery supply.
PDOPool ==
    {FixedPDO(5000, 3000), FixedPDO(9000, 2000), FixedPDO(9000, 3000),
     FixedPDO(15000, 1500),
     PPSOf(3300, 5900, 3000), PPSOf(3300, 11000, 3000), PPSOf(5000, 11000, 1100),
     {30} \cup FixedPDO(9000, 3000)}

\* A list of MaxDataObjects PDOs.
FullList ==
    <<{30} \cup FixedPDO(9000, 3000), FixedPDO(5000, 3000), PPSOf(3300, 5900, 3000),
      FixedPDO(9000, 2000), PPSOf(5000, 11000, 1100), PPSOf(3300, 11000, 3000),
      FixedPDO(9000, 3000)>>

PDOLists == UNION {[1..n -> PDOPool] : n \in 0..MaxPDOs} \cup {FullList}

\* PDOs that a source can send although no supply is like them: a fixed
\* supply of 0 V, PPS supplies of 150 mA and of 100 mA, and a PPS supply whose
\* voltages are 0.  They are given to the constant power policy, alone and
\* after a 5 V supply.
DegeneratePool ==
    {FixedPDO(0, 3000), PPSOf(3300, 5900, 150), PPSOf(3300, 5900, 100),
     PPSOf(0, 0, 3000)}
DegenerateLists ==
    {<<p>> : p \in DegeneratePool}
    \cup {<<FixedPDO(5000, 3000), p>> : p \in DegeneratePool}

CCPolicy(min, max, minc, maxc, lower) ==
    [MinVoltage |-> min, MaxVoltage |-> max, MinCurrent |-> minc, MaxCurrent |-> maxc,
     PreferLowerVoltage |-> lower]
CPPolicy(min, max, power, lower, pps) ==
    [MinVoltage |-> min, MaxVoltage |-> max, Power |-> power,
     PreferLowerVoltage |-> lower, PreferPPS |-> pps]

\* The policies tried: voltage windows around one, several or no PDO, on and
\* off the grids of the RDO fields.  The CV and CC policies are used when
\* Validate accepts them; a CPPolicy has no Validate.
CVPolicies ==
    {CVPolicy(t[1], t[2], t[3], lower, pps) :
        t \in {<<8000, 10000, 3000>>, <<3300, 21000, 1500>>, <<3300, 21000, 2900>>,
               <<4500, 5500, 1025>>, <<5010, 5010, 1000>>, <<12000, 21000, 1000>>},
        lower \in BOOLEAN, pps \in BOOLEAN}
CCPolicies ==
    {CCPolicy(t[1], t[2], t[3], t[4], lower) :
        t \in {<<3300, 21000, 1000, 3000>>, <<5010, 5010, 1020, 1040>>,
               <<4000, 9000, 2000, 5000>>, <<6000, 21000, 1000, 1000>>,
               <<12000, 21000, 1000, 5000>>},
        lower \in BOOLEAN}
CPPolicies ==
    {CPPolicy(t[1], t[2], t[3], lower, pps) :
        t \in {<<3300, 21000, 15000>>, <<3300, 21000, 45000>>, <<8000, 10000, 27000>>,
               <<4500, 5500, 10000>>, <<0, 21000, 15000>>},
        lower \in BOOLEAN, pps \in BOOLEAN}

DPMBench(policy, c, pdos, op, rdo, panicked) ==
    [kind |-> "DPM", policy |-> policy, c |-> c, pdos |-> pdos, op |-> op, rdo |-> rdo,
     panicked |-> panicked]

CVEvaluate ==
    /\ bench.kind = "DPM" /\ bench.policy = "CV" /\ bench.op = "new"
    /\ bench' = DPMBench("CV", bench.c, bench.pdos, "Evaluate",
                         CVEvaluateCapabilities(bench.c, bench.pdos), FALSE)
    /\ EngineIdle

CCEvaluate ==
    /\ bench.kind = "DPM" /\ bench.policy = "CC" /\ bench.op = "new"
    /\ bench' = DPMBench("CC", bench.c, bench.pdos, "Evaluate",
                         CCEvaluateCapabilities(bench.c, bench.pdos), FALSE)
    /\ EngineIdle

CPEvaluate ==
    /\ bench.kind = "DPM" /\ bench.policy = "CP" /\ bench.op = "new"
    /\ \E a \in {CPAccumulate(bench.c, bench.pdos)} :
           bench' = DPMBench("CP", bench.c, bench.pdos, "Evaluate",
                             IF a.panicked THEN EmptyRequestDO
                             ELSE CPEvaluateCapabilities(bench.c, bench.pdos),
                             a.panicked)
    /\ EngineIdle

InitDPM ==
    /\ InitEngine({<<NoDPM, FALSE>>}, MaxQueue)
    /\ \/ \E pdos \in PDOLists :
              \/ \E c \in {x \in CVPolicies : CVValidate(x)} :
                     bench = DPMBench("CV", c, pdos, "new", EmptyRequestDO, FALSE)
              \/ \E c \in {x \in CCPolicies : CCValidate(x)} :
                     bench = DPMBench("CC", c, pdos, "new", EmptyRequestDO, FALSE)
              \/ \E c \in CPPolicies :
                     bench = DPMBench("CP", c, pdos, "new", EmptyRequestDO, FALSE)
       \/ \E pdos \in DegenerateLists, c \in CPPolicies :
              bench = DPMBench("CP", c, pdos, "new", EmptyRequestDO, FALSE)

NextDPM ==
    \/ CVEvaluate
    \/ CCEvaluate
    \/ CPEvaluate

SpecDPM == InitDPM /\ [][NextDPM]_vars

(***************************************************************************)
(* The mutex-guarded constant voltage manager (type CV): one goroutine     *)
(* calls EvaluateCapabilities while another calls SetPolicy.  bench holds  *)
(* c.policy (policy), the SetPolicy call in progress (writer: the policy   *)
(* being stored and the number of fields stored so far, the mutex being    *)
(* held while writer.on), the evaluation's locals (snap is the copy made   *)
(* under the lock, ppsMinCurrent, a = bestVoltage and rdo, i the loop      *)
(* index), its position (pc) and the number of SetPolicy calls made.       *)
(* The assignment c.policy = p stores the struct one field at a time; a    *)
(* read of c.policy made without the mutex sees the fields stored so far.  *)
(***************************************************************************)
cvOvercurrentMargin == 150

CVManagerPolicy(min, max, minCurrent, lower) ==
    [MinVoltage |-> min, MaxVoltage |-> max, MinCurrent |-> minCurrent,
     PreferLowerVoltage |-> lower]

CVManagerFields == <<"MinVoltage", "MaxVoltage", "MinCurrent", "PreferLowerVoltage">>

CVManagerPolicies ==
    {CVManagerPolicy(4500, 5500, 1000, FALSE), CVManagerPolicy(8000, 10000, 2500, TRUE),
     CVManagerPolicy(3300, 21000, 3000, FALSE)}

CVManagerLists ==
    {<<Fixed5V3A, Fixed9V3A>>,
     <<FixedPDO(9000, 2000), PPSOf(3300, 11000, 3000), Fixed5V3A>>}

\* One iteration of the loop of CV.EvaluateCapabilities: shared is c.policy
\* as this iteration reads it, prefer is policy.PreferLowerVoltage of the copy.
CVManagerLoopBody(shared, prefer, ppsMinCurrent, a, i, p) ==
    IF PDOType(p) = PDOTypeFixedSupply THEN
        LET v == FixedVoltage(p)
        IN  IF /\ v >= shared.MinVoltage /\ v <= shared.MaxVoltage
               /\ FixedMaxCurrent(p) >= shared.MinCurrent
               /\ \/ (prefer /\ v < a.bestVoltage)
                  \/ (~prefer /\ v > a.bestVoltage)
            THEN [bestVoltage |-> v,
                  rdo |-> SetFixedOperatingCurrent(
                              SetFixedMaxOperatingCurrent(
                                  SetSelectedObjectPosition(a.rdo, (i + 1) % 256),
                                  shared.MinCurrent),
                              shared.MinCurrent)]
            ELSE a
    ELSE IF PDOType(p) = PDOTypePPS THEN
        LET minV == IF shared.MinVoltage < PPSMinVoltage(p) THEN PPSMinVoltage(p)
                    ELSE shared.MinVoltage
            maxV == IF shared.MaxVoltage > PPSMaxVoltage(p) THEN PPSMaxVoltage(p)
                    ELSE shared.MaxVoltage
        IN  IF minV <= maxV /\ ppsMinCurrent <= PPSMaxCurrent(p) THEN
                IF prefer /\ minV < a.bestVoltage THEN
                    [bestVoltage |-> minV,
                     rdo |-> SetPPSOutputCurrent(
                                 SetPPSOutputVoltage(
                                     SetSelectedObjectPosition(a.rdo, (i + 1) % 256),
                                     minV),
                                 shared.MinCurrent)]
                ELSE IF ~prefer /\ maxV > a.bestVoltage THEN
                    [bestVoltage |-> maxV,
                     rdo |-> SetPPSOutputCurrent(
                                 SetPPSOutputVoltage(
                                     SetSelectedObjectPosition(a.rdo, (i + 1) % 256),
                                     maxV),
                                 shared.MinCurrent)]
                ELSE a
            ELSE a
    ELSE a

CVManagerBench(policy, writer, snap, pdos, pc, ppsMinCurrent, a, i, sets) ==
    [kind |-> "CVManager", policy |-> policy, writer |-> writer, snap |-> snap,
     pdos |-> pdos, pc |-> pc, ppsMinCurrent |-> ppsMinCurrent, a |-> a, i |-> i,
     sets |-> sets]

NoWriter == [on |-> FALSE, p |-> CVManagerPolicy(0, 0, 0, FALSE), k |-> 0]

\* SetPolicy up to its first store: c.mu.Lock() succeeds.
SetPolicyLock(p) ==
    /\ bench.kind = "CVManager" /\ ~bench.writer.on /\ bench.sets < MaxCalls
    /\ bench' = [bench EXCEPT !.writer = [on |-> TRUE, p |-> p, k |-> 0],
                              !.sets = @ + 1]
    /\ EngineIdle

\* SetPolicy: the next field of c.policy = p is stored; after the last one
\* c.mu.Unlock().
SetPolicyStore ==
    /\ bench.kind = "CVManager" /\ bench.writer.on
    /\ LET f == CVManagerFields[bench.writer.k + 1]
       IN  bench' = [bench EXCEPT
                        !.policy = [@ EXCEPT ![f] = bench.writer.p[f]],
                        !.writer = IF bench.writer.k + 1 = Len(CVManagerFields)
                                   THEN NoWriter
                                   ELSE [@ EXCEPT !.k = @ + 1]]
    /\ EngineIdle

\* EvaluateCapabilities: c.mu.Lock(); policy := c.policy; c.mu.Unlock().
EvaluateSnapshot ==
    /\ bench.kind = "CVManager" /\ bench.pc = "call" /\ ~bench.writer.on
    /\ bench' = [bench EXCEPT !.snap = bench.policy, !.pc = "margin"]
    /\ EngineIdle

\* EvaluateCapabilities: ppsMinCurrent, bestVoltage and rdo are set up.
EvaluateMargin ==
    /\ bench.kind = "CVManager" /\ bench.pc = "margin"
    /\ bench' = [bench EXCEPT
                    !.ppsMinCurrent = (bench.policy.MinCurrent + cvOvercurrentMargin) % 65536,
                    !.a = [bestVoltage |-> IF bench.snap.PreferLowerVoltage
                                           THEN MaxUint16 ELSE 0,
                           rdo |-> EmptyRequestDO],
                    !.i = 0,
                    !.pc = IF Len(bench.pdos) = 0 THEN "returned" ELSE "loop"]
    /\ EngineIdle

\* EvaluateCapabilities: one iteration of the loop over pdos; `return rdo`
\* after the last.
EvaluatePDO ==
    /\ bench.kind = "CVManager" /\ bench.pc = "loop"
    /\ bench' = [bench EXCEPT
                    !.a = CVManagerLoopBody(bench.policy, bench.snap.PreferLowerVoltage,
                                            bench.ppsMinCurrent, @, bench.i,
                                            bench.pdos[bench.i + 1]),
                    !.i = @ + 1,
                    !.pc = IF bench.i + 1 = Len(bench.pdos) THEN "returned" ELSE "loop"]
    /\ EngineIdle

InitCVManager ==
    /\ InitEngine({<<NoDPM, FALSE>>}, MaxQueue)
    /\ \E pdos \in CVManagerLists :
           bench = CVManagerBench(CVManagerPolicy(0, 0, 0, FALSE), NoWriter,
                                  CVManagerPolicy(0, 0, 0, FALSE), pdos, "call", 0,
                                  [bestVoltage |-> 0, rdo |-> EmptyRequestDO], 0, 0)

NextCVManager ==
    \/ \E p \in CVManagerPolicies : SetPolicyLock(p)
    \/ SetPolicyStore
    \/ EvaluateSnapshot
    \/ EvaluateMargin
    \/ EvaluatePDO

SpecCVManager == InitCVManager /\ [][NextCVManager]_vars

(***************************************************************************)
(* Messages on their own: a Message whose header is written by the header  *)
(* setters, serialised by ToBytes into byte slices of several lengths and  *)
(* read back by the getters.  bench holds the message (m), the latest call *)
(* (op), the slice handed to ToBytes (b), what ToBytes made of it (r) and  *)
(* what the getters returned (dec).                                        *)
(***************************************************************************)
\* The request of a fixed supply at position 1, 1000 mA operating and maximum,
\* built with the RequestDO setters.
RequestExample ==
    SetFixedOperatingCurrent(
        SetFixedMaxOperatingCurrent(SetSelectedObjectPosition(EmptyRequestDO, 1), 1000),
        1000)

\* Data whose 28 bytes all differ: byte k of slot i is 16*i + k + 1.
SlotData ==
    [i \in 1..MaxDataObjects |->
        UNION {{8 * k + j : j \in BitsOf(16 * i + k + 1)} : k \in 0..3}]
\* Data holding the request in slot 0 and all ones in every other slot.
ExampleData == [i \in 1..MaxDataObjects |-> IF i = 1 THEN RequestExample ELSE U32]
\* A received message: header 0x61A1 and the data object 0x0801912C.
ReceivedMessage ==
    [Header |-> WordOf(24993),
     Data |-> [i \in 1..MaxDataObjects |-> IF i = 1 THEN WordOf(134320428) ELSE {}]]

MsgSeeds ==
    {[Header |-> {}, Data |-> d] : d \in {ZeroData, SlotData, ExampleData}}
    \cup {ReceivedMessage}

\* The arguments given to the header setters: every count, some types,
\* revisions and message IDs, and the roles and the flag of a sink's message.
MsgArgs(f) ==
    CASE f = "Type" -> {TypeRequest, TypeAccept}
      [] f = "Revision" -> {Revision20, Revision30}
      [] f = "ID" -> {0, 1, 7}
      [] f = "DataObjectCount" -> 0..MaxDataObjects
      [] f = "PowerRole" -> {PowerRoleSink}
      [] f = "DataRole" -> {DataRoleUFP}
      [] OTHER -> {0}

\* The lengths of the slices handed to ToBytes.
BufLens == {l \in 0..MaxBuf : l \in {0, 1, 2, 3, 5, 6, 7, 10, 29, 30} \/ l = MaxBuf}
\* What every byte of a slice holds before the call.
FillByte == 170

NoResult == [b |-> <<>>, panicked |-> FALSE, n |-> 0]
NoDecode == [done |-> FALSE]

MsgBench(m, op, b, r, dec) ==
    [kind |-> "Message", m |-> m, op |-> op, b |-> b, r |-> r, dec |-> dec]

\* A header setter is called on the message.
MsgSet(f, x) ==
    /\ bench.kind = "Message"
    /\ f \in FieldsOf("Header")
    /\ bench' = MsgBench([bench.m EXCEPT !.Header = FieldSet(f, @, x)], "Set",
                         <<>>, NoResult, NoDecode)
    /\ EngineIdle

\* ToBytes is called with a slice of l bytes.
MsgToBytes(l) ==
    /\ bench.kind = "Message"
    /\ \E b \in {[i \in 1..l |-> FillByte]} :
       \E r \in {ToBytes(bench.m, b)} :
           bench' = MsgBench(bench.m, "ToBytes", b, r, NoDecode)
    /\ EngineIdle

\* The getters are called on the message and on its first data object.
MsgDecode ==
    /\ bench.kind = "Message"
    /\ bench' = MsgBench(bench.m, "Decode", <<>>, NoResult,
                         [done |-> TRUE,
                          IsData |-> IsData(bench.m.Header),
                          DataObjectCount |-> DataObjectCount(bench.m.Header),
                          Type |-> Type(bench.m.Header),
                          PDOType |-> PDOType(bench.m.Data[1]),
                          Voltage |-> FixedVoltage(bench.m.Data[1]),
                          MaxCurrent |-> FixedMaxCurrent(bench.m.Data[1])])
    /\ EngineIdle

InitMsg ==
    /\ InitEngine({<<NoDPM, FALSE>>}, MaxQueue)
    /\ \E m \in MsgSeeds : bench = MsgBench(m, "new", <<>>, NoResult, NoDecode)

NextMsg ==
    \/ \E f \in FieldsOf("Header") : \E x \in MsgArgs(f) : MsgSet(f, x)
    \/ \E l \in BufLens : MsgToBytes(l)
    \/ MsgDecode

SpecMsg == InitMsg /\ [][NextMsg]_vars

TypeOK ==
    /\ cur \in States
    /\ entering \in BOOLEAN
    /\ run \in {"running", "returned", "panicked"}
    /\ pe.nextTxID \in 0..7
    /\ pe.lastRxID \in 0..8
    /\ Len(rxQueue) <= queueSize

(***************************************************************************)
(* C1: the k-th message handed to Tx since the latest entry into           *)
(* SinkStartup (k from 0, failed transmissions included) carries message   *)
(* ID k mod 8, and nextTxID is 0 right after every SinkStartup entry.      *)
(* txCount counts the Tx calls since that entry, so the messages of the    *)
(* latest step are numbers txCount - Len(txOut) .. txCount - 1 and         *)
(* nextTxID is the ID of message number txCount.                           *)
(***************************************************************************)
C1_TxSequencing ==
    /\ \A i \in 1..Len(txOut) :
           ID(txOut[i].Header) = (txCount - Len(txOut) + i - 1) % 8
    /\ pe.nextTxID = txCount % 8
    /\ (txCount = 0) => (pe.nextTxID = 0)

\* The ninth message of a session has just been sent, with ID 0 again.
C1_Witness ==
    /\ txCount = 9
    /\ Len(txOut) = 1
    /\ ID(txOut[1].Header) = 0

(***************************************************************************)
(* C2: a message pulled from the port controller whose ID equals lastRxID  *)
(* is discarded and not dispatched; a message with another ID is           *)
(* dispatched and its ID becomes lastRxID; lastRxID is 8 after every entry *)
(* into SinkStartup, so that the first message after a startup is          *)
(* dispatched whatever its ID.  rxOut names the messages that the rx()     *)
(* call of a step dropped and the one it handed to Process.                *)
(***************************************************************************)
C2_RxStep ==
    /\ \A i \in 1..Len(rxOut'.dropped) : rxOut'.dropped[i].id = pe.lastRxID
    /\ rxOut'.got # <<>> =>
           /\ rxOut'.got[1].id # pe.lastRxID
           /\ pe'.lastRxID = rxOut'.got[1].id
    /\ (rxOut'.got = <<>> /\ cur # stateSinkStartup) => pe'.lastRxID = pe.lastRxID
    /\ (cur = stateSinkStartup /\ cur' # stateSinkStartup) => pe'.lastRxID = 8
    /\ pe.lastRxID = 8 => rxOut'.dropped = <<>>

C2_RxDedup == [][C2_RxStep]_vars

\* One rx() call has dropped a duplicate and then returned a fresh message.
C2_Witness ==
    /\ rxOut.dropped # <<>>
    /\ rxOut.got # <<>>
    /\ pe.lastRxID = rxOut.got[1].id

(***************************************************************************)
(* C3: in every state in which the engine waits for events, a popped       *)
(* ResetReceived or Detached event makes SinkStartup the next state, and   *)
(* the entry into SinkStartup delivers the callback with on=false before   *)
(* any on=true: the entry is the engine's next step and is the only thing  *)
(* it does while SinkStartup is current.                                   *)
(***************************************************************************)
WaitingStates ==
    {stateSinkDiscovery, stateSinkWaitForCapabilities, stateSinkSelectCapabilities,
     stateSinkTransitionSink, stateSinkReady, stateNoPD}

C3_Step ==
    /\ eOut' \in {EventResetReceived, EventDetached} =>
           /\ cur \in WaitingStates
           /\ cur' = stateSinkStartup
           /\ entering'
    /\ cur = stateSinkStartup =>
           /\ entering
           /\ \A i \in 1..Len(cbOut') : ~cbOut'[i].On
           /\ (cur' # stateSinkStartup /\ fn) =>
                  cbOut' = <<PowerChangeDetail(FALSE, 0, 0, FALSE)>>

C3_ResetDetach == [][C3_Step]_vars

\* Detached has just been popped under an explicit contract.
C3_Witness ==
    /\ eOut = EventDetached
    /\ cur = stateSinkStartup
    /\ entering
    /\ pe.explicitContract
    /\ fn

(***************************************************************************)
(* C5: the port controller's SendReset is called only by the Enter of      *)
(* SinkHardReset: a step that calls it is the entry into SinkHardReset.    *)
(***************************************************************************)
C5_OnlyHardResetSendsReset ==
    [][hrOut' # 0 => (cur = stateSinkHardReset /\ entering /\ hrOut' = 1)]_vars

\* SinkHardReset has just called SendReset with success.
C5_Witness ==
    /\ hrOut = 1
    /\ cur = stateSinkStartup

(***************************************************************************)
(* C6: whenever the current state is SinkReady, explicitContract is true.  *)
(* SinkReady is entered only from SinkTransitionSink, itself entered only  *)
(* by the Accept that sets explicitContract, or from                       *)
(* SinkSelectCapabilities with explicitContract already true; and          *)
(* explicitContract is cleared only by the entry into SinkStartup.         *)
(***************************************************************************)
C6_Step ==
    /\ (cur # stateSinkReady /\ cur' = stateSinkReady) =>
           \/ cur = stateSinkTransitionSink
           \/ cur = stateSinkSelectCapabilities /\ pe.explicitContract
    /\ (cur # stateSinkTransitionSink /\ cur' = stateSinkTransitionSink) =>
           /\ cur = stateSinkSelectCapabilities
           /\ pe'.explicitContract
    /\ (pe.explicitContract /\ ~pe'.explicitContract) => cur = stateSinkStartup

C6_ReadyHasContract ==
    /\ [](cur = stateSinkReady => pe.explicitContract)
    /\ [][C6_Step]_vars

\* SinkReady entered on a Wait under an explicit contract.
C6_Witness ==
    /\ cur = stateSinkReady
    /\ pe.waitingOnSource
    /\ pe.explicitContract

(***************************************************************************)
(* C7: when the entry into SinkNoPD presents the 5 V PDO to the DPM and    *)
(* the DPM accepts it, the callback is invoked with on=true, 5000 mV and   *)
(* the current advertised by Rp, whatever requestDO and sourceCapMsg hold; *)
(* every on=true callback of that entry reports these values.              *)
(***************************************************************************)
NoPDAccepted == evalCaps(dpm, <<pe.v5PDO>>) # EmptyRequestDO

C7_Step ==
    (cur = stateNoPD /\ entering /\ (~entering' \/ run' # run)) =>
        /\ run' = "running"
        /\ \A i \in 1..Len(cbOut') :
               cbOut'[i].On =>
                   /\ cbOut'[i].Voltage = 5000
                   /\ cbOut'[i].MaxCurrent = FixedMaxCurrent(pe.v5PDO)
        /\ (NoPDAccepted /\ fn) =>
               cbOut' = <<PowerChangeDetail(TRUE, 5000, FixedMaxCurrent(pe.v5PDO), FALSE)>>

C7_NoPDReportsRp == [][C7_Step]_vars

(***************************************************************************)
(* C8: with a CV policy of 8000..10000 mV and 3000 mA, the trace Attached, *)
(* SourceCap(5 V/3 A, 9 V/3 A), Accept, PSReady drives the states          *)
(* SinkStartup, SinkDiscovery, SinkWaitForCapabilities,                    *)
(* SinkEvaluateCapabilities, SinkSelectCapabilities, SinkTransitionSink,   *)
(* SinkReady; exactly one Request is transmitted, with message ID 0 and an *)
(* RDO selecting position 2 at 3000 mA; and the callbacks are on=false at  *)
(* startup, then {on, 9000 mV, 3000 mA}.                                   *)
(***************************************************************************)
HappyPath ==
    <<stateSinkStartup, stateSinkDiscovery, stateSinkWaitForCapabilities,
      stateSinkEvaluateCapabilities, stateSinkSelectCapabilities,
      stateSinkTransitionSink, stateSinkReady>>

HappyRequest(m) ==
    /\ IsData(m.Header)
    /\ Type(m.Header) = TypeRequest
    /\ DataObjectCount(m.Header) = 1
    /\ ID(m.Header) = 0
    /\ SelectedObjectPosition(m.Data[1]) = 2
    /\ FixedOperatingCurrent(m.Data[1]) = 3000
    /\ FixedMaxOperatingCurrent(m.Data[1]) = 3000

C8_Step ==
    /\ cur' # cur => \E i \in 1..(Len(HappyPath) - 1) :
                         cur = HappyPath[i] /\ cur' = HappyPath[i + 1]
    /\ txOut' # <<>> =>
           /\ cur = stateSinkSelectCapabilities
           /\ txCount = 0
           /\ Len(txOut') = 1
           /\ HappyRequest(txOut'[1])
    /\ cbOut' # <<>> =>
           \/ /\ cur = stateSinkStartup
              /\ cbOut' = <<PowerChangeDetail(FALSE, 0, 0, FALSE)>>
           \/ /\ cur = stateSinkTransitionSink
              /\ cur' = stateSinkReady
              /\ cbOut' = <<PowerChangeDetail(TRUE, 9000, 3000, FALSE)>>
    /\ (cur = stateSinkStartup /\ cur' # cur) => cbOut' # <<>>
    /\ (cur = stateSinkTransitionSink /\ cur' # cur) => cbOut' # <<>>

C8_HappyPath ==
    /\ [](run = "running" /\ txCount <= 1)
    /\ [](cur \in {stateSinkTransitionSink, stateSinkReady} => txCount = 1)
    /\ [][C8_Step]_vars

\* PSReady has just been received: SinkReady is entered with the callback made.
C8_Witness ==
    /\ cur = stateSinkReady
    /\ cbOut = <<PowerChangeDetail(TRUE, 9000, 3000, FALSE)>>
    /\ txCount = 1
    /\ eOut = EventRx

\* The step is the dispatch to SinkSelectCapabilities of a control message of
\* type t.
SelectGot(t) ==
    /\ cur = stateSinkSelectCapabilities
    /\ rxOut'.got # <<>>
    /\ ~rxOut'.got[1].data
    /\ rxOut'.got[1].type = t

(***************************************************************************)
(* C9: in SinkSelectCapabilities a received Reject always moves the engine *)
(* to SinkHardReset, with or without an explicit contract; SinkHardReset   *)
(* is left only for SinkStartup, whose entry delivers the callback with    *)
(* on=false; and no callback with on=true is delivered on the way.         *)
(***************************************************************************)
C9_Step ==
    /\ SelectGot(TypeReject) =>
           /\ cur' = stateSinkHardReset
           /\ entering'
           /\ cbOut' = <<>>
    /\ cur = stateSinkHardReset =>
           /\ entering
           /\ cur' \in {stateSinkHardReset, stateSinkStartup}
           /\ cbOut' = <<>>
    /\ (cur = stateSinkStartup /\ cur' # cur) =>
           cbOut' = IF fn THEN <<PowerChangeDetail(FALSE, 0, 0, FALSE)>> ELSE <<>>

\* A Reject has just been dispatched to SinkSelectCapabilities.
Rejected ==
    /\ cur = stateSinkHardReset
    /\ entering
    /\ rxOut.got # <<>>
    /\ ~rxOut.got[1].data
    /\ rxOut.got[1].type = TypeReject

\* SinkStartup has just been entered and has made its callback.
StartupEntered ==
    /\ cur \in {stateSinkDiscovery, stateSinkHardReset}
    /\ entering
    /\ txCount = 0
    /\ hrOut = 0
    /\ cbOut = IF fn THEN <<PowerChangeDetail(FALSE, 0, 0, FALSE)>> ELSE <<>>

C10_Step ==
    /\ SelectGot(TypeWait) =>
           /\ pe'.waitingOnSource
           /\ cur' = IF pe.explicitContract THEN stateSinkReady
                     ELSE stateSinkWaitForCapabilities
           /\ entering'
    /\ (cur = stateSinkReady /\ entering /\ ~entering' /\ pe.waitingOnSource) =>
           /\ pe'.timerExpiry = timerSinkRequest
           /\ pe'.timerExpiry # timerSinkPPSPeriodic
    /\ (cur = stateSinkReady /\ eOut' = EventTimerTimeout) =>
           /\ cur' = stateSinkSelectCapabilities
           /\ entering'
    /\ (cur = stateSinkSelectCapabilities /\ entering /\ (~entering' \/ cur' # cur)) =>
           /\ Len(txOut') = 1
           /\ IsData(txOut'[1].Header)
           /\ Type(txOut'[1].Header) = TypeRequest
           /\ txOut'[1].Data[1] = IF pe.requestDO = EmptyRequestDO THEN defaultRDO
                                   ELSE pe.requestDO
    /\ (pe.waitingOnSource /\ ~pe'.waitingOnSource) => SelectGot(TypeAccept)

C10_WaitHandling == [][C10_Step]_vars

\* The request has been sent again after a Wait under a PPS contract and the
\* timeout of the 100 ms timer.
C10_Witness ==
    /\ cur = stateSinkSelectCapabilities
    /\ ~entering
    /\ pe.waitingOnSource
    /\ pe.explicitContract
    /\ ppsNegotiated(pe) = "true"
    /\ txOut # <<>>
    /\ txCount = 3

(***************************************************************************)
(* C4: a SendReset event added by Renegotiate stays pending across the     *)
(* state transitions until it is popped; when it is popped the engine      *)
(* enters SinkHardReset from whatever state it is in; and, unless the port *)
(* controller reports ResetReceived at every Alert call for ever, a        *)
(* pending SendReset is eventually followed by an entry into               *)
(* SinkHardReset.                                                          *)
(***************************************************************************)
C4_Step ==
    /\ (Has(events, EventSendReset) /\ eOut' # EventSendReset) =>
           Has(events', EventSendReset)
    /\ eOut' = EventSendReset =>
           /\ Has(events, EventSendReset)
           /\ cur' = stateSinkHardReset
           /\ entering'

C4_Renegotiate ==
    /\ [][C4_Step]_vars
    /\ Has(events, EventSendReset) ~> (cur = stateSinkHardReset /\ entering)

(***************************************************************************)
(* C11: once a Request that selects a PPS PDO has been answered by Accept  *)
(* and PSReady, the entry into SinkReady starts the timer of               *)
(* tSinkPPSPeriodic (10 s); when a timer expires in SinkReady the engine   *)
(* enters SinkSelectCapabilities, whose entry transmits one Request with   *)
(* the same RDO under the next message ID, and so on for every Accept and  *)
(* PSReady that follow.  When the PDO selected is a fixed supply and       *)
(* waitingOnSource is false the entry into SinkReady starts no timer, no   *)
(* timer expires there and SinkReady is not left for                       *)
(* SinkSelectCapabilities.                                                 *)
(***************************************************************************)
\* The RDO of the Request of the negotiation under way.
Requested(p) == IF p.requestDO = EmptyRequestDO THEN defaultRDO ELSE p.requestDO

\* That RDO selects a PPS PDO of the source's capabilities.
SelectsPPS(p) ==
    LET pos == SelectedObjectPosition(Requested(p))
    IN  /\ pos \in 1..MaxDataObjects
        /\ PDOType(p.sourceCapMsg.Data[pos]) = PDOTypePPS

Negotiating ==
    cur \in {stateSinkSelectCapabilities, stateSinkTransitionSink, stateSinkReady}

C11_Step ==
    /\ (cur = stateSinkReady /\ entering /\ ~pe.waitingOnSource /\ SelectsPPS(pe)) =>
           /\ pe'.timerExpiry = timerSinkPPSPeriodic
           /\ cur' = stateSinkReady
    /\ (cur = stateSinkReady /\ entering /\ ~pe.waitingOnSource /\ ~SelectsPPS(pe)) =>
           /\ pe'.timerExpiry = maxTimerExpiry
           /\ cur' = stateSinkReady
    /\ (cur = stateSinkReady /\ ~pe.waitingOnSource /\ ~SelectsPPS(pe)) =>
           /\ eOut' # EventTimerTimeout
           /\ cur' # stateSinkSelectCapabilities
           /\ txOut' = <<>>
    /\ (cur = stateSinkReady /\ eOut' = EventTimerTimeout) =>
           /\ cur' = stateSinkSelectCapabilities
           /\ entering'
    /\ (cur = stateSinkSelectCapabilities /\ entering) =>
           /\ Len(txOut') = 1
           /\ Type(txOut'[1].Header) = TypeRequest
           /\ DataObjectCount(txOut'[1].Header) = 1
           /\ txOut'[1].Data[1] = Requested(pe)
           /\ ID(txOut'[1].Header) = pe.nextTxID
           /\ pe'.nextTxID = (pe.nextTxID + 1) % 8
    /\ Negotiating =>
           /\ pe'.requestDO = pe.requestDO
           /\ pe'.sourceCapMsg # pe.sourceCapMsg => cur' = stateSinkEvaluateCapabilities

C11_PPSPeriodic ==
    /\ [][C11_Step]_vars
    /\ [](cur = stateSinkTransitionSink => (~pe.waitingOnSource /\ pe.explicitContract))

\* The periodic timer of a PPS contract has just expired, two Requests into
\* the session.
C11_Witness ==
    /\ cur = stateSinkSelectCapabilities
    /\ entering
    /\ eOut = EventTimerTimeout
    /\ ~pe.waitingOnSource
    /\ pe.explicitContract
    /\ SelectsPPS(pe)
    /\ pe.nextTxID = 2

(***************************************************************************)
(* C12: an iteration in which Alert, Rx (with an error other than          *)
(* ErrRxEmpty), Tx or Init returns an error ends with SinkHardReset as the *)
(* state to enter, whatever next state the state function returned; an     *)
(* iteration in which Rx returns ErrRxEmpty changes neither the state nor  *)
(* entering and makes no call.                                             *)
(***************************************************************************)
C12_Step ==
    /\ errOut' \in {"Alert", "Rx", "Tx", "Init"} =>
           /\ cur' = stateSinkHardReset
           /\ entering'
    /\ errOut' = "ErrRxEmpty" =>
           /\ cur' = cur
           /\ ~entering'
           /\ txOut' = <<>>
           /\ cbOut' = <<>>
           /\ hrOut' = 0

C12_ErrorsForceHardReset == [][C12_Step]_vars

\* Init has failed in SinkStartup, whose Enter returned SinkDiscovery.
C12_Witness ==
    /\ errOut = "Init"
    /\ cur = stateSinkHardReset
    /\ entering
    /\ cbOut # <<>>

(***************************************************************************)
(* C13: when SendReset fails on the entry into SinkHardReset, the state    *)
(* entered next is SinkStartup, not SinkHardReset again.                   *)
(***************************************************************************)
C13_Step == errOut' = "SendReset" => cur' = stateSinkStartup

C13_FailedResetStartsUp == [][C13_Step]_vars

(***************************************************************************)
(* C14: Run returns only once its context is cancelled, whatever the port  *)
(* controller reports or fails at and whatever the state; and once the     *)
(* context is cancelled the next thing Run does is to return, at the top   *)
(* of its loop, without entering or processing anything, which it          *)
(* eventually does.                                                        *)
(***************************************************************************)
C14_Step ==
    /\ run' = "returned" => ctxDone
    /\ (ctxDone /\ run = "running") =>
           /\ run' = "returned"
           /\ NoOutput
           /\ UNCHANGED <<cur, entering, pe, events, rxQueue, txCount>>
    /\ run = "returned" => run' = "returned"

C14_ReturnsIffCancelled ==
    /\ [][C14_Step]_vars
    /\ [](run = "returned" => ctxDone)
    /\ (ctxDone /\ run = "running") ~> (run = "returned")

\* Run has returned in place of entering SinkSelectCapabilities.
C14_Witness ==
    /\ run = "returned"
    /\ cur = stateSinkSelectCapabilities
    /\ entering
    /\ txCount = 0

(***************************************************************************)
(* C15: the engine never aborts: no index into the data array of the       *)
(* source's capabilities and no slice bound is out of range, and Process   *)
(* is never called on a state that has none.  run is "panicked" exactly    *)
(* when one of these has happened.                                         *)
(***************************************************************************)
C15_NeverAborts == run # "panicked"

(***************************************************************************)
(* C16: when the DPM slot is nil or the DPM answers the source's           *)
(* capabilities with the empty RDO, the Request sent on the entry into     *)
(* SinkSelectCapabilities carries the default RDO (position 1, 100 mA      *)
(* operating and maximum operating current); no Request carries the        *)
(* all-zero RDO; that negotiation makes no callback with on=true, also     *)
(* when the source answers Accept and PSReady; and an engine without a DPM *)
(* makes no callback with on=true at all.                                  *)
(***************************************************************************)
\* The DPM slot is nil or the DPM declines the capabilities held.
Declined ==
    LET l == DataObjectCount(pe.sourceCapMsg.Header)
    IN  \/ dpm.nil
        \/ CVEvaluateCapabilities(dpm.policy, [i \in 1..l |-> pe.sourceCapMsg.Data[i]])
               = EmptyRequestDO

NoOnCallback(cbs) == \A i \in 1..Len(cbs) : ~cbs[i].On

C16_Step ==
    /\ (cur = stateSinkSelectCapabilities /\ entering /\ Declined) =>
           /\ Len(txOut') = 1
           /\ Type(txOut'[1].Header) = TypeRequest
           /\ DataObjectCount(txOut'[1].Header) = 1
           /\ SelectedObjectPosition(txOut'[1].Data[1]) = 1
           /\ FixedOperatingCurrent(txOut'[1].Data[1]) = 100
           /\ FixedMaxOperatingCurrent(txOut'[1].Data[1]) = 100
           /\ txOut'[1].Data[1] = defaultRDO
    /\ \A i \in 1..Len(txOut') : txOut'[i].Data[1] # EmptyRequestDO
    /\ (Negotiating /\ Declined) => NoOnCallback(cbOut')
    /\ dpm.nil => NoOnCallback(cbOut')

C16_DeclinedRequest == [][C16_Step]_vars

\* A source has answered the default Request of a declining DPM with Accept
\* and PSReady.
C16_Witness ==
    /\ cur = stateSinkReady
    /\ entering
    /\ ~dpm.nil
    /\ Declined
    /\ fn
    /\ rxOut.got # <<>>
    /\ rxOut.got[1].type = TypePSReady
    /\ cbOut = <<>>

(***************************************************************************)
(* C17: Pop on a non-empty event set returns exactly one event, the        *)
(* pending one that comes first in the order ResetReceived, SendReset,     *)
(* Power0A5, Power1A5, Power3A0, Attached, Detached, Rx, TimerTimeout, and *)
(* removes it alone; Pop on the empty set returns EventNone and leaves the *)
(* set empty; Add is set union, so adding pending events changes nothing;  *)
(* Has tells whether one of the events asked for is pending and leaves the *)
(* set as it is.                                                           *)
(***************************************************************************)
Priority ==
    <<EventResetReceived, EventSendReset, EventPower0A5, EventPower1A5, EventPower3A0,
      EventAttached, EventDetached, EventRx, EventTimerTimeout>>

C17_Step ==
    /\ (bench'.op = "Pop" /\ bench.w # {}) =>
           \E k \in 1..Len(Priority) :
               /\ bench'.ret = Priority[k]
               /\ Priority[k] \subseteq bench.w
               /\ \A j \in 1..(k - 1) : ~(Priority[j] \subseteq bench.w)
               /\ bench'.w = bench.w \ Priority[k]
               /\ Cardinality(bench'.w) = Cardinality(bench.w) - 1
    /\ (bench'.op = "Pop" /\ bench.w = {}) =>
           /\ bench'.ret = EventNone
           /\ bench'.w = {}
    /\ bench'.op = "Add" =>
           /\ bench'.w = bench.w \cup bench'.arg
           /\ bench'.arg \subseteq bench.w => bench'.w = bench.w
    /\ bench'.op = "Has" =>
           /\ bench'.w = bench.w
           /\ bench'.has = (\E k \in 1..Len(Priority) :
                               Priority[k] \subseteq bench.w /\ Priority[k] \subseteq bench'.arg)

C17_EventSet == [][C17_Step]_vars

\* Pop has returned Attached out of a set in which Detached, Rx and
\* TimerTimeout stay pending.
C17_Witness ==
    /\ bench.kind = "Event"
    /\ bench.op = "Pop"
    /\ bench.ret = EventAttached
    /\ bench.w = EventDetached \cup EventRx \cup EventTimerTimeout

(***************************************************************************)
(* C18: in a header the message type is bits 0-4, the data role bit 5, the *)
(* revision bits 6-7, the power role bit 8, the message ID bits 9-11, the  *)
(* number of data objects bits 12-14 and the extended flag bit 15; writing *)
(* the value read from a header back with the setter of the field leaves   *)
(* the header as it was, and a field set to an in-range value reads as     *)
(* that value.                                                             *)
(***************************************************************************)
HeaderLayout ==
    [Type |-> <<0, 5>>, DataRole |-> <<5, 1>>, Revision |-> <<6, 2>>,
     PowerRole |-> <<8, 1>>, ID |-> <<9, 3>>, DataObjectCount |-> <<12, 3>>,
     Extended |-> <<15, 1>>]

C18_Step ==
    bench'.kind = "Header" =>
        /\ \A f \in FieldsOf("Header") :
               FieldGet(f, bench'.w)
                   = FieldVal(bench'.w, HeaderLayout[f][1], HeaderLayout[f][2])
        /\ bench'.op = "WriteBack" =>
               /\ bench'.arg = FieldGet(bench'.field, bench.w)
               /\ bench'.w = bench.w
        /\ (bench'.op = "Set" /\ bench'.arg < 2^(HeaderLayout[bench'.field][2])) =>
               FieldGet(bench'.field, bench'.w) = bench'.arg

C18_HeaderRoundTrip == [][C18_Step]_vars

\* Revision 3 has been read from a header and written back, after two
\* setter calls on the header of all ones.
C18_Witness ==
    /\ bench.kind = "Header"
    /\ bench.op = "WriteBack"
    /\ bench.field = "Revision"
    /\ bench.arg = 3
    /\ bench.calls = 3

(***************************************************************************)
(* C19: every setter of a header, PDO or RDO field, for every value of its *)
(* parameter, stores the argument divided by the unit and truncated to the *)
(* width of the field, and leaves every bit outside the field as it was.   *)
(***************************************************************************)
C19_Step ==
    (bench'.kind \in CodecKinds /\ bench'.op = "Set") =>
        LET f == bench'.field
        IN  /\ bench'.w \ FieldBits(f) = bench.w \ FieldBits(f)
            /\ FieldVal(bench'.w, FieldLo(f), FieldWidth(f))
                   = (bench'.arg \div FieldUnit(f)) % 2^FieldWidth(f)

C19_SetterFrame == [][C19_Step]_vars

(***************************************************************************)
(* C20: in a FixedSupplyPDO, a PPSPDO and a RequestDO used as a fixed or   *)
(* as a PPS request, each getter returns the value last given to its       *)
(* setter when that value is on the grid of the field and within its       *)
(* range, and that value rounded down to the grid otherwise, whatever      *)
(* setters of the same variant were called before and after.               *)
(***************************************************************************)
InRange(f, x) == x \div FieldUnit(f) < 2^FieldWidth(f)

AcceptBuilt ==
    /\ bench.kind = "Message"
    /\ Type(bench.m.Header) = TypeAccept
    /\ Revision(bench.m.Header) = Revision20
    /\ PowerRole(bench.m.Header) = PowerRoleSink
    /\ DataRole(bench.m.Header) = DataRoleUFP
    /\ ID(bench.m.Header) = 0
    /\ DataObjectCount(bench.m.Header) = 0
    /\ ~IsExtended(bench.m.Header)

Encoded == bench.kind = "Message" /\ bench.op = "ToBytes"

C21_EmptyAccept ==
    AcceptBuilt =>
        /\ bench.m.Header = WordOf(67)
        /\ (Encoded /\ Len(bench.b) >= 2) =>
               /\ ~bench.r.panicked
               /\ bench.r.n = 2
               /\ SubSeq(bench.r.b, 1, 2) = <<67, 0>>

C21_Original ==
    AcceptBuilt =>
        /\ bench.m.Header = WordOf(1603)
        /\ (Encoded /\ Len(bench.b) >= 2) =>
               /\ ~bench.r.panicked
               /\ bench.r.n = 2
               /\ SubSeq(bench.r.b, 1, 2) = <<67, 6>>

\* The Accept has been serialised into a slice of exactly two bytes.
C21_Witness ==
    /\ AcceptBuilt
    /\ Encoded
    /\ bench.r = [b |-> <<67, 0>>, panicked |-> FALSE, n |-> 2]

(***************************************************************************)
(* C22: for a message with data-object count c, ToBytes on a slice of at   *)
(* least 2+4c bytes writes the low then the high byte of the header at     *)
(* bytes 0..1, data object i (i < c) as four bytes, least significant      *)
(* first, from byte 2+4i, leaves every byte from 2+4c on as it was         *)
(* (whatever Data holds at index c and beyond), and returns 2+4c.  The     *)
(* rev 3.0 sink/UFP Request with ID 1 and the request data object          *)
(* 0x10019064 has header 0x1282 and bytes 82 12 64 90 01 10.               *)
(***************************************************************************)
\* The bits of byte k of the word d.
ByteBits(d, k) == {j \in 0..7 : 8 * k + j \in d}

RequestBuilt ==
    /\ bench.kind = "Message"
    /\ Type(bench.m.Header) = TypeRequest
    /\ Revision(bench.m.Header) = Revision30
    /\ PowerRole(bench.m.Header) = PowerRoleSink
    /\ DataRole(bench.m.Header) = DataRoleUFP
    /\ ID(bench.m.Header) = 1
    /\ DataObjectCount(bench.m.Header) = 1
    /\ ~IsExtended(bench.m.Header)
    /\ bench.m.Data[1] = RequestExample

C22_ToBytes ==
    /\ Encoded =>
           LET c == DataObjectCount(bench.m.Header)
               out == bench.r.b
           IN  Len(bench.b) >= 2 + 4 * c =>
                   /\ ~bench.r.panicked
                   /\ bench.r.n = 2 + 4 * c
                   /\ Len(out) = Len(bench.b)
                   /\ BitsOf(out[1]) = ByteBits(bench.m.Header, 0)
                   /\ BitsOf(out[2]) = ByteBits(bench.m.Header, 1)
                   /\ \A i \in 0..(c - 1) : \A k \in 0..3 :
                          BitsOf(out[2 + 4 * i + k + 1]) = ByteBits(bench.m.Data[i + 1], k)
                   /\ \A j \in (2 + 4 * c + 1)..Len(out) : out[j] = bench.b[j]
    /\ RequestBuilt =>
           /\ bench.m.Header = WordOf(4738)
           /\ bench.m.Data[1] = WordOf(268537956)
           /\ (Encoded /\ Len(bench.b) >= 6) =>
                  SubSeq(bench.r.b, 1, 6) = <<130, 18, 100, 144, 1, 16>>

\* The Request has been serialised into a slice of ten bytes, every other
\* slot of Data holding all ones.
C22_Witness ==
    /\ RequestBuilt
    /\ Encoded
    /\ bench.m.Data[2] = U32
    /\ bench.r = [b |-> <<130, 18, 100, 144, 1, 16, FillByte, FillByte, FillByte, FillByte>>,
                  panicked |-> FALSE, n |-> 6]

(***************************************************************************)
(* C23: the header 0x61A1 reads as a data message of type SourceCap whose  *)
(* data-object count is 6 (bits 12-14 are 110), and the data object        *)
(* 0x0801912C reads as a fixed supply of 5000 mV and 3000 mA.              *)
(* C23_Original states the count 1 instead, which is the header 0x11A1.    *)
(***************************************************************************)
Decoded == bench.kind = "Message" /\ bench.op = "Decode" /\ bench.dec.done

C23_SourceCapDecode ==
    (Decoded /\ bench.m.Header = WordOf(24993) /\ bench.m.Data[1] = WordOf(134320428)) =>
        /\ bench.dec.IsData
        /\ bench.dec.DataObjectCount = 6
        /\ bench.dec.Type = TypeSourceCap
        /\ bench.dec.PDOType = PDOTypeFixedSupply
        /\ bench.dec.Voltage = 5000
        /\ bench.dec.MaxCurrent = 3000

C23_Original ==
    (Decoded /\ bench.m.Header = WordOf(24993) /\ bench.m.Data[1] = WordOf(134320428)) =>
        /\ bench.dec.IsData
        /\ bench.dec.DataObjectCount = 1
        /\ bench.dec.Type = TypeSourceCap
        /\ bench.dec.PDOType = PDOTypeFixedSupply
        /\ bench.dec.Voltage = 5000
        /\ bench.dec.MaxCurrent = 3000

\* The getters have been called on the received message.
C23_Witness ==
    /\ Decoded
    /\ bench.m = ReceivedMessage
    /\ bench.dec.DataObjectCount = 6
    /\ bench.dec.Voltage = 5000

(***************************************************************************)
(* C24: ToBytes on a slice shorter than 2+4*count returns to its caller    *)
(* (reporting BufferTooSmall) instead of aborting, and the slice keeps its *)
(* length.                                                                 *)
(***************************************************************************)
C24_BufferTooSmall ==
    (Encoded /\ Len(bench.b) < 2 + 4 * DataObjectCount(bench.m.Header)) =>
        /\ ~bench.r.panicked
        /\ Len(bench.r.b) = Len(bench.b)

(***************************************************************************)
(* C25: PDO.Type returns Fixed, Battery or Variable when bits 30-31 are    *)
(* 00, 01 or 10, whatever bits 28-29 hold; with bits 30-31 = 11 it returns *)
(* PPS exactly when bits 28-29 are 00, EPR-AVS exactly when they are 01,   *)
(* and none of the five types otherwise.  The PDO made by NewPPSPDO has    *)
(* type PPS, also after any sequence of PPSPDO setter calls.               *)
(***************************************************************************)
PDOTypes ==
    {PDOTypeFixedSupply, PDOTypeBattery, PDOTypeVariableSupply, PDOTypePPS, PDOTypeEPRAVS}

TypeCalled == bench.kind \in {"PDO", "FixedSupplyPDO", "PPSPDO"} /\ bench.op = "Type"

C25_PDOType ==
    TypeCalled =>
        LET w == bench.w
            t == bench.ret
        IN  /\ (30 \notin w /\ 31 \notin w) => t = PDOTypeFixedSupply
            /\ (30 \in w /\ 31 \notin w) => t = PDOTypeBattery
            /\ (30 \notin w /\ 31 \in w) => t = PDOTypeVariableSupply
            /\ (30 \in w /\ 31 \in w) =>
                   /\ t = PDOTypePPS <=> (28 \notin w /\ 29 \notin w)
                   /\ t = PDOTypeEPRAVS <=> (28 \in w /\ 29 \notin w)
                   /\ 29 \in w => t \notin PDOTypes
            /\ bench.kind = "PPSPDO" => t = PDOTypePPS

\* Type has been called on a PPS PDO after three setter calls, all three
\* setters having been given the largest uint16.
C25_Witness ==
    /\ TypeCalled
    /\ bench.kind = "PPSPDO"
    /\ bench.calls = MaxCalls
    /\ DOMAIN bench.last = FieldsOf("PPSPDO")
    /\ \A f \in FieldsOf("PPSPDO") : bench.last[f] = 65535
    /\ bench.ret = PDOTypePPS

(***************************************************************************)
(* C26: when CVPolicy.EvaluateCapabilities returns an RDO whose position   *)
(* refers to a fixed PDO of the list, that PDO qualifies (voltage within   *)
(* [MinVoltage, MaxVoltage], max current >= Current), no qualifying fixed  *)
(* PDO of the list has a higher voltage (a lower one when                  *)
(* PreferLowerVoltage), none at an earlier position has the same voltage,  *)
(* and the RDO's operating and max operating current are Current rounded   *)
(* down to 10 mA.                                                          *)
(***************************************************************************)
Evaluated(policy) ==
    bench.kind = "DPM" /\ bench.policy = policy /\ bench.op = "Evaluate"

\* The PDO the returned RDO refers to is of type t.
Selects(t) ==
    /\ bench.rdo # EmptyRequestDO
    /\ SelectedObjectPosition(bench.rdo) \in 1..Len(bench.pdos)
    /\ PDOType(bench.pdos[SelectedObjectPosition(bench.rdo)]) = t

FixedQualifies(c, p) ==
    /\ PDOType(p) = PDOTypeFixedSupply
    /\ FixedVoltage(p) >= c.MinVoltage
    /\ FixedVoltage(p) <= c.MaxVoltage
    /\ FixedMaxCurrent(p) >= c.Current

Max2(a, b) == IF a >= b THEN a ELSE b
Min2(a, b) == IF a <= b THEN a ELSE b
ClampedMin(c, p) == Max2(c.MinVoltage, PPSMinVoltage(p))
ClampedMax(c, p) == Min2(c.MaxVoltage, PPSMaxVoltage(p))

CVPPSQualifies(c, p) ==
    /\ PDOType(p) = PDOTypePPS
    /\ ClampedMin(c, p) <= ClampedMax(c, p)
    /\ PPSMaxCurrent(p) >= c.Current + 150

\* The endpoint voltage the policy prefers of the PPS PDO p.
Endpoint(c, p) == IF c.PreferLowerVoltage THEN ClampedMin(c, p) ELSE ClampedMax(c, p)

\* The choice among the PDOs of the list that satisfy Q: the PDO at pos
\* satisfies Q and has the preferred endpoint, the first of equals.
BestPPS(c, pdos, pos, Q(_, _)) ==
    /\ Q(c, pdos[pos])
    /\ \A j \in 1..Len(pdos) :
           Q(c, pdos[j]) =>
               /\ IF c.PreferLowerVoltage
                  THEN ClampedMin(c, pdos[j]) >= ClampedMin(c, pdos[pos])
                  ELSE ClampedMax(c, pdos[j]) <= ClampedMax(c, pdos[pos])
               /\ Endpoint(c, pdos[j]) = Endpoint(c, pdos[pos]) => j >= pos

\* What C27 says of the choice; carries(v, i) is what it says of the RDO's
\* output voltage and current, given the endpoint voltage v and Current i.
CVChoice(carries(_, _)) ==
    Evaluated("CV") =>
        LET c == bench.c
            pdos == bench.pdos
            pos == SelectedObjectPosition(bench.rdo)
            someFixed == \E j \in 1..Len(pdos) : FixedQualifies(c, pdos[j])
            somePPS == \E j \in 1..Len(pdos) : CVPPSQualifies(c, pdos[j])
        IN  /\ bench.rdo # EmptyRequestDO =>
                   Selects(PDOTypeFixedSupply) \/ Selects(PDOTypePPS)
            /\ Selects(PDOTypePPS) =>
                   /\ ~someFixed \/ (c.PreferPPS /\ somePPS)
                   /\ BestPPS(c, pdos, pos, CVPPSQualifies)
                   /\ carries(Endpoint(c, pdos[pos]), c.Current)
            /\ (somePPS /\ (~someFixed \/ c.PreferPPS)) => Selects(PDOTypePPS)
            /\ (~someFixed /\ ~somePPS) => bench.rdo = EmptyRequestDO

CarriesRounded(v, i) ==
    /\ PPSOutputVoltage(bench.rdo) = (v \div 20) * 20
    /\ PPSOutputCurrent(bench.rdo) = (i \div 50) * 50

CarriesExactly(v, i) ==
    /\ PPSOutputVoltage(bench.rdo) = v
    /\ PPSOutputCurrent(bench.rdo) = i

CCQualifies(c, p) ==
    /\ PDOType(p) = PDOTypePPS
    /\ ClampedMin(c, p) <= ClampedMax(c, p)
    /\ PPSMaxCurrent(p) >= c.MinCurrent

\* What C28 says of the choice; lowest(x, unit) is the least value it allows
\* in the RDO for a policy minimum x.
CCChoice(lowest(_, _)) ==
    Evaluated("CC") =>
        LET c == bench.c
            pdos == bench.pdos
            pos == SelectedObjectPosition(bench.rdo)
            some == \E j \in 1..Len(pdos) : CCQualifies(c, pdos[j])
        IN  /\ bench.rdo # EmptyRequestDO => Selects(PDOTypePPS)
            /\ Selects(PDOTypePPS) =>
                   /\ BestPPS(c, pdos, pos, CCQualifies)
                   /\ CarriesRounded(Endpoint(c, pdos[pos]),
                                     Min2(PPSMaxCurrent(pdos[pos]), c.MaxCurrent))
                   /\ CCValidate(c) =>
                          /\ PPSOutputVoltage(bench.rdo) >= lowest(c.MinVoltage, 20)
                          /\ PPSOutputVoltage(bench.rdo) <= c.MaxVoltage
                          /\ PPSOutputCurrent(bench.rdo) >= lowest(c.MinCurrent, 50)
                          /\ PPSOutputCurrent(bench.rdo) <= c.MaxCurrent
            /\ some => Selects(PDOTypePPS)
            /\ ~some => bench.rdo = EmptyRequestDO

RoundedDown(x, unit) == (x \div unit) * unit
Itself(x, unit) == x

C29_CPFixedPick ==
    (Evaluated("CP") /\ ~bench.panicked /\ Selects(PDOTypeFixedSupply)) =>
        LET c == bench.c
            p == bench.pdos[SelectedObjectPosition(bench.rdo)]
            v == FixedVoltage(p)
            needed == (c.Power * 1000) \div v
        IN  /\ v >= c.MinVoltage
            /\ v <= c.MaxVoltage
            /\ v * FixedMaxCurrent(p) >= c.Power * 1000
            /\ FixedOperatingCurrent(bench.rdo) \in {RoundedDown(needed, 10),
                                                    RoundedDown(needed, 10) + 10}


\* ---------------------------------------------------------------------
\* C30: a timer timeout is dispatched only in SinkWaitForCapabilities,
\* SinkSelectCapabilities, SinkTransitionSink and SinkReady. From
\* SinkWaitForCapabilities it leads to NoPD when the 5 V PDO derived from
\* the Rp advertisement carries a current, and to SinkHardReset when it
\* carries none; from SinkSelectCapabilities and SinkTransitionSink it
\* leads to SinkHardReset; from SinkReady to SinkSelectCapabilities. In
\* SinkDiscovery and in NoPD no timer runs once the state has been
\* entered, so no timeout is dispatched there.
TimeoutTarget ==
    CASE cur = stateSinkWaitForCapabilities ->
             IF FixedMaxCurrent(pe.v5PDO) > 0 THEN stateNoPD
             ELSE stateSinkHardReset
      [] cur \in {stateSinkSelectCapabilities, stateSinkTransitionSink} ->
             stateSinkHardReset
      [] cur = stateSinkReady -> stateSinkSelectCapabilities
      [] OTHER -> Nil

C30_Step ==
    eOut' = EventTimerTimeout =>
        /\ ~entering
        /\ entering'
        /\ cur \notin {stateSinkDiscovery, stateNoPD}
        /\ cur' = TimeoutTarget

C30_TimerTimeout ==
    /\ [][C30_Step]_vars
    /\ []((cur \in {stateSinkDiscovery, stateNoPD} /\ ~entering) =>
              pe.timerExpiry = maxTimerExpiry)

\* A timeout in SinkWaitForCapabilities under an Rp advertisement that carries
\* a current has led to NoPD.
C30_Witness ==
    /\ eOut = EventTimerTimeout
    /\ cur = stateNoPD
    /\ entering
    /\ FixedMaxCurrent(pe.v5PDO) > 0


\* ---------------------------------------------------------------------
\* C31: timer discipline. Every iteration that enters a state clears the
\* timer before the entry action runs, so after it the timer is either
\* off or the one that the entered state starts; no other iteration
\* starts a timer. A timeout is dispatched only to a state that is
\* waiting on the timer its own entry started, only when no event is
\* pending after the events of Alert were merged, and it leaves the timer
\* off, so that one timer start yields at most one timeout.
TimersOf(s) ==
    CASE s = stateSinkWaitForCapabilities -> {timerSinkWaitCap}
      [] s = stateSinkSelectCapabilities -> {timerSenderResponse}
      [] s = stateSinkTransitionSink -> {timerPSTransition}
      [] s = stateSinkReady -> {timerSinkRequest, timerSinkPPSPeriodic}
      [] OTHER -> {}

C31_Step ==
    /\ RunEnter => pe'.timerExpiry \in {maxTimerExpiry} \cup TimersOf(cur)
    /\ ~RunEnter => pe'.timerExpiry \in {pe.timerExpiry, maxTimerExpiry}
    /\ eOut' = EventTimerTimeout =>
           /\ ~entering
           /\ pe.timerExpiry \in TimersOf(cur)
           /\ pe'.timerExpiry = maxTimerExpiry
           /\ events = EventNone
           /\ events' = EventNone

C31_TimerDiscipline == [][C31_Step]_vars

\* The request timer of SinkReady has timed out: the engine is about to
\* enter SinkSelectCapabilities and the timer is off.
C31_Witness ==
    /\ eOut = EventTimerTimeout
    /\ cur = stateSinkSelectCapabilities
    /\ entering
    /\ pe.waitingOnSource
    /\ pe.timerExpiry = maxTimerExpiry


\* ---------------------------------------------------------------------
\* C32: draining a burst of messages. An iteration that pops EventRx
\* pulls messages from the front of the port controller's queue, drops
\* those that repeat the ID of the last message and hands at most one to
\* Process of the state that is current in that iteration, which is never
\* a state still to be entered; it then puts EventRx back. No event of
\* higher priority is pending in such an iteration. EventRx leaves the
\* event set in such an iteration alone, and only when Rx returned
\* ErrRxEmpty, which leaves the state as it is, or another error, which
\* sends the engine to SinkHardReset.
Notes(q) == [i \in 1..Len(q) |-> RxNote(q[i])]

\* The iteration handed m to Process of the current state.
Dispatched(m) ==
    LET r == Process(cur, [pe EXCEPT !.lastRxID = ID(m.Header)], m, EventRx, fn)
    IN  /\ ~r.panic
        /\ pe' = r.pe
        /\ cur' = (IF r.next # Nil THEN r.next ELSE cur)
        /\ entering' = (r.next # Nil)
        /\ cbOut' = r.cb

\* What an iteration that popped EventRx does, whatever made Rx fail.
RxIteration ==
    LET pulled == rxOut'.dropped \o rxOut'.got
        all == pulled \o Notes(rxQueue')
    IN  /\ ~entering
        /\ events \subseteq EventRx
        /\ events' \subseteq EventRx
        /\ Len(all) >= Len(rxQueue)
        /\ SubSeq(all, 1, Len(rxQueue)) = Notes(rxQueue)
        /\ \A i \in 1..Len(rxOut'.dropped) : rxOut'.dropped[i].id = pe.lastRxID
        /\ Len(rxOut'.got) <= 1
        /\ rxOut'.got # <<>> =>
               /\ rxOut'.got[1].id # pe.lastRxID
               /\ errOut' = "nil"
               /\ Has(events', EventRx)
               /\ \E m \in SourceMsgs : RxNote(m) = rxOut'.got[1] /\ Dispatched(m)
        /\ rxOut'.got = <<>> =>
               /\ errOut' \in {"ErrRxEmpty", "Rx"}
               /\ ~Has(events', EventRx)
               /\ pe' = pe
        /\ errOut' = "ErrRxEmpty" =>
               /\ rxQueue' = <<>>
               /\ cur' = cur
               /\ ~entering'

C32_Step ==
    /\ eOut' = EventRx => RxIteration
    /\ (Has(events, EventRx) /\ ~Has(events', EventRx)) =>
           /\ eOut' = EventRx
           /\ errOut' \in {"ErrRxEmpty", "Rx"}
           /\ errOut' = "Rx" => (cur' = stateSinkHardReset /\ entering')

C32_RxDrain == [][C32_Step]_vars

\* The claim as stated: EventRx leaves the event set only when Rx returned
\* ErrRxEmpty.
C32_OriginalStep ==
    /\ eOut' = EventRx => RxIteration
    /\ (Has(events, EventRx) /\ ~Has(events', EventRx)) =>
           (eOut' = EventRx /\ errOut' = "ErrRxEmpty")

C32_Original == [][C32_OriginalStep]_vars

\* An Accept that followed the capabilities in the queue was handed to
\* SinkSelectCapabilities, the state entered meanwhile, with a further
\* message still queued and EventRx put back.
C32_Witness ==
    /\ eOut = EventRx
    /\ rxOut.got # <<>>
    /\ ~rxOut.got[1].data
    /\ rxOut.got[1].type = TypeAccept
    /\ cur = stateSinkTransitionSink
    /\ entering
    /\ rxQueue # <<>>
    /\ Has(events, EventRx)


\* ---------------------------------------------------------------------
\* C33: attach precedes message delivery. In SinkDiscovery EventRx is
\* never popped while EventAttached is pending. Handling EventAttached
\* there leads to SinkWaitForCapabilities and consumes no message, and
\* EventRx stays pending; entering SinkWaitForCapabilities touches neither
\* the queue nor the event set; and the capabilities pulled when EventRx
\* is popped in SinkWaitForCapabilities are kept and lead to
\* SinkEvaluateCapabilities.
IsPrefix(s, t) == Len(s) <= Len(t) /\ SubSeq(t, 1, Len(s)) = s

C33_Step ==
    /\ (cur = stateSinkDiscovery /\ eOut' = EventRx) => ~Has(events', EventAttached)
    /\ (cur = stateSinkDiscovery /\ eOut' = EventAttached) =>
           /\ ~entering
           /\ cur' = stateSinkWaitForCapabilities
           /\ entering'
           /\ pe' = pe
           /\ IsPrefix(rxQueue, rxQueue')
           /\ Has(events, EventRx) => Has(events', EventRx)
    /\ (cur = stateSinkWaitForCapabilities /\ RunEnter) =>
           /\ cur' = cur
           /\ ~entering'
           /\ rxQueue' = rxQueue
           /\ events' = events
    /\ (/\ cur = stateSinkWaitForCapabilities
        /\ eOut' = EventRx
        /\ rxOut'.got # <<>>
        /\ rxOut'.got[1].data
        /\ rxOut'.got[1].type = TypeSourceCap) =>
           /\ cur' = stateSinkEvaluateCapabilities
           /\ entering'
           /\ RxNote(pe'.sourceCapMsg) = rxOut'.got[1]
           /\ DataObjectCount(pe'.sourceCapMsg.Header) > 0

C33_AttachFirst == [][C33_Step]_vars

\* EventAttached was handled in SinkDiscovery while EventRx was pending and
\* the source's capabilities were waiting in the queue.
C33_Witness ==
    /\ eOut = EventAttached
    /\ cur = stateSinkWaitForCapabilities
    /\ entering
    /\ Has(events, EventRx)
    /\ rxQueue # <<>>
    /\ Type(Head(rxQueue).Header) = TypeSourceCap
    /\ IsData(Head(rxQueue).Header)
    /\ ID(Head(rxQueue).Header) # pe.lastRxID


\* ---------------------------------------------------------------------
\* C34: revision negotiation. The capabilities accepted in
\* SinkWaitForCapabilities set the revision of the message template to
\* the lower of the revision received and 3.0, and nothing else changes
\* the template: it keeps the sink and UFP roles, extended = false, and an
\* empty type, ID, count and data. Every message transmitted is a Request
\* with one data object that carries the template's revision and roles;
\* its ID and RDO are written to a copy.
TemplateWith(rev) == [New.msgTpl EXCEPT !.Header = SetRevision(@, rev)]

\* The iteration accepted capabilities in SinkWaitForCapabilities.
AcceptedCaps ==
    /\ cur = stateSinkWaitForCapabilities
    /\ eOut' = EventRx
    /\ rxOut'.got # <<>>
    /\ rxOut'.got[1].data
    /\ rxOut'.got[1].type = TypeSourceCap

C34_Step ==
    /\ AcceptedCaps =>
           LET r == Revision(pe'.sourceCapMsg.Header)
           IN  /\ RxNote(pe'.sourceCapMsg) = rxOut'.got[1]
               /\ pe'.msgTpl = TemplateWith(IF r <= Revision30 THEN r ELSE Revision30)
    /\ ~AcceptedCaps => pe'.msgTpl = pe.msgTpl
    /\ \A i \in 1..Len(txOut') :
           LET m == txOut'[i]
           IN  /\ IsData(m.Header)
               /\ Type(m.Header) = TypeRequest
               /\ DataObjectCount(m.Header) = 1
               /\ PowerRole(m.Header) = PowerRoleSink
               /\ DataRole(m.Header) = DataRoleUFP
               /\ ~IsExtended(m.Header)
               /\ Revision(m.Header) = Revision(pe.msgTpl.Header)
               /\ ID(m.Header) = pe.nextTxID
               /\ m.Data[1] # ZeroData[1]
               /\ pe'.msgTpl = pe.msgTpl

C34_Revision ==
    /\ [][C34_Step]_vars
    /\ [](pe.msgTpl = TemplateWith(Revision(pe.msgTpl.Header)))

\* The second Request of a session, with a message ID other than 0, sent at
\* revision 3.0 to a source whose capabilities state the reserved revision.
C34_Witness ==
    /\ txOut # <<>>
    /\ txCount = 2
    /\ ID(txOut[1].Header) = 1
    /\ Revision(pe.sourceCapMsg.Header) = 3
    /\ Revision(txOut[1].Header) = Revision30
    /\ pe.msgTpl = TemplateWith(Revision30)


\* ---------------------------------------------------------------------
\* C35: every entry into SinkHardReset delivers the power-not-ready
\* notification, the callback with on = false, in the iteration that
\* calls SendReset, whether SendReset succeeds or fails.
C35_Step ==
    (cur = stateSinkHardReset /\ hrOut' = 1 /\ fn) =>
        /\ cbOut' # <<>>
        /\ cbOut'[1] = PowerChangeDetail(FALSE, 0, 0, FALSE)

C35_HardResetNotifies == [][C35_Step]_vars


\* ---------------------------------------------------------------------
\* C36: NoPD is left only through the transitions that every state has.
\* Once NoPD has been entered, no iteration calls the callback, transmits
\* or sends a hard reset, no timer runs, and the engine context changes
\* only in the Rp current and the ID of the last message received. A
\* message (capabilities that arrive late included), EventAttached and
\* the Power events leave the state as it is; the engine leaves for
\* SinkStartup on EventDetached and EventResetReceived, and for
\* SinkHardReset on EventSendReset and on an error of the port controller.
InNoPD == cur = stateNoPD /\ ~entering

C36_Step ==
    InNoPD =>
        /\ cbOut' = <<>>
        /\ txOut' = <<>>
        /\ hrOut' = 0
        /\ eOut' # EventTimerTimeout
        /\ [pe' EXCEPT !.v5PDO = pe.v5PDO, !.lastRxID = pe.lastRxID] = pe
        /\ run' = run
        /\ (eOut' \in {EventDetached, EventResetReceived}) =>
               (cur' = stateSinkStartup /\ entering')
        /\ (eOut' = EventSendReset \/ errOut' \in {"Alert", "Rx"}) =>
               (cur' = stateSinkHardReset /\ entering')
        /\ (/\ eOut' \notin {EventDetached, EventResetReceived, EventSendReset}
            /\ errOut' \notin {"Alert", "Rx"}) =>
               (cur' = stateNoPD /\ ~entering')

C36_NoPDAbsorbing ==
    /\ [][C36_Step]_vars
    /\ [](InNoPD => pe.timerExpiry = maxTimerExpiry)

\* Capabilities that arrived late were pulled in NoPD and the engine is
\* still there.
C36_Witness ==
    /\ InNoPD
    /\ eOut = EventRx
    /\ rxOut.got # <<>>
    /\ rxOut.got[1].data
    /\ rxOut.got[1].type = TypeSourceCap


\* ---------------------------------------------------------------------
\* C37: the Power events. An iteration that pops EventPower0A5,
\* EventPower1A5 or EventPower3A0 sets the current of v5PDO to 500, 1500
\* or 3000 mA and changes nothing else: not the rest of the context (the
\* timer, the message IDs, the flags, requestDO), not the state, and it
\* calls neither the port controller nor the callback. No other iteration
\* changes v5PDO, so that the current last advertised is still there
\* after a detach, a reset and the entries into SinkStartup and
\* SinkHardReset.
PowerEvents == {EventPower0A5, EventPower1A5, EventPower3A0}

C37_Step ==
    /\ eOut' \in PowerEvents =>
           /\ FixedMaxCurrent(pe'.v5PDO) = PowerCurrent(eOut')
           /\ FixedVoltage(pe'.v5PDO) = 5000
           /\ PDOType(pe'.v5PDO) = PDOTypeFixedSupply
           /\ [pe' EXCEPT !.v5PDO = pe.v5PDO] = pe
           /\ cur' = cur
           /\ ~entering /\ ~entering'
           /\ run' = run
           /\ txOut' = <<>> /\ cbOut' = <<>> /\ hrOut' = 0
    /\ eOut' \notin PowerEvents => pe'.v5PDO = pe.v5PDO

C37_PowerEvents == [][C37_Step]_vars

\* A charger that advertised 3 A was detached: the engine is about to
\* enter SinkStartup and v5PDO still carries 3000 mA.
C37_Witness ==
    /\ eOut = EventDetached
    /\ cur = stateSinkStartup
    /\ entering
    /\ FixedMaxCurrent(pe.v5PDO) = 3000


\* ---------------------------------------------------------------------
\* C38: no negotiation state holds the engine for ever. If from some
\* point on the port controller is silent (Alert reports no event, no
\* message arrives and no call fails), then from some point on the engine
\* waits in SinkDiscovery, SinkReady or NoPD with its loop running.
Resting ==
    /\ cur \in {stateSinkDiscovery, stateSinkReady, stateNoPD}
    /\ ~entering
    /\ run = "running"

C38_ComesToRest == <>[][QuietStep]_vars => <>[]Resting


\* ---------------------------------------------------------------------
\* C39: CPPolicy.EvaluateCapabilities is total. For every list of PDOs,
\* a fixed PDO of 0 V, a PPS PDO of 150 mA or less and a PPS PDO whose
\* clamped maximum voltage is 0 included, it returns without a run-time
\* panic, and what it returns is the empty RDO or an RDO whose position
\* is that of a PDO of the list.
C39_CPTotal ==
    Evaluated("CP") =>
        /\ ~bench.panicked
        /\ \/ bench.rdo = EmptyRequestDO
           \/ SelectedObjectPosition(bench.rdo) \in 1..Len(bench.pdos)


\* ---------------------------------------------------------------------------
\* C40 (as stated): the mutex-guarded CV manager's EvaluateCapabilities
\* decides every PDO of one call against the single copy of the policy it
\* took under the lock: the RDO it returns is the one the loop yields when
\* every field it uses (voltage range, MinCurrent, preference) comes from
\* that copy, whatever SetPolicy calls run meanwhile.
RECURSIVE CVManagerLoop(_, _, _, _, _)
CVManagerLoop(policy, ppsMinCurrent, a, i, pdos) ==
    IF i >= Len(pdos) THEN a
    ELSE CVManagerLoop(policy, ppsMinCurrent,
                       CVManagerLoopBody(policy, policy.PreferLowerVoltage, ppsMinCurrent,
                                         a, i, pdos[i + 1]),
                       i + 1, pdos)

OfOneSnapshot(policy, pdos) ==
    CVManagerLoop(policy, (policy.MinCurrent + cvOvercurrentMargin) % 65536,
                  [bestVoltage |-> IF policy.PreferLowerVoltage THEN MaxUint16 ELSE 0,
                   rdo |-> EmptyRequestDO],
                  0, pdos).rdo

C40_SingleSnapshot ==
    (bench.kind = "CVManager" /\ bench.pc = "returned")
        => bench.a.rdo = OfOneSnapshot(bench.snap, bench.pdos)
=============================================================================
